---- MODULE Spec2Model ----
(***************************************************************************)
(* RepWatch vote resolution core: the key system (lib/vote_keys), the      *)
(* motion canonicalizer (lib/motion_normalizer.js), the two legislative    *)
(* action indexes (BillStatusIndex, IssuesIndex) and the VoteResolver      *)
(* (services/vote_resolver.js).                                            *)
(*                                                                         *)
(* Representation.                                                         *)
(*  - A text is the sequence of its whitespace-separated tokens, in the    *)
(*    case it was written in.  The token " " stands for a run of           *)
(*    whitespace, so <<>> is the empty string and <<" ">> a whitespace-    *)
(*    only string.  A regular expression of the source is matched token    *)
(*    by token: \b is a token boundary, \s+ the gap between two tokens,    *)
(*    (\d+) one numeric token, the flag i a comparison of lower-cased      *)
(*    tokens.                                                              *)
(*  - A key "a:b:c" is the tuple <<a, b, c>> of its colon-separated        *)
(*    parts; null is the empty tuple (both are falsy in the source).       *)
(*  - A date YYYY-MM-DD is its day number; adding an offset in days is     *)
(*    integer addition.                                                    *)
(*  - A confidence or score is kept in tenths: 10 is 1.0, 9 is 0.9,        *)
(*    7 is 0.7, 0 is 0.0.                                                  *)
(*  - A thrown Error is the value Raised in place of the return value.     *)
(***************************************************************************)
EXTENDS Integers, Sequences, FiniteSets, TLC

(***************************************************************************)
(* JavaScript values                                                       *)
(***************************************************************************)

\* null / undefined where a record is expected
Null == [null |-> TRUE]

\* null where a string is expected
NullStr == "null"

\* null where a key is expected (falsy, like the empty string)
NullKey == <<>>

\* null where a number is expected (parseInt results are never negative here)
NullNum == -1

\* a thrown Error in place of a returned record
Raised == [raised |-> TRUE]

\* a thrown Error in place of a returned key
KeyError == <<"Error">>

\* the empty string / a missing text
EmptyText == <<>>

(***************************************************************************)
(* Tokens                                                                  *)
(***************************************************************************)

\* parseInt(token, 10) of the numeric tokens (\d+) the texts use
NumVal ==
  ("0" :> 0) @@ ("3" :> 3) @@ ("5" :> 5) @@ ("50" :> 50) @@ ("51" :> 51)
  @@ ("58" :> 58) @@ ("2766" :> 2766) @@ ("82" :> 82) @@ ("99" :> 99)
  @@ ("118" :> 118) @@ ("119" :> 119) @@ ("234" :> 234)

NumToks == DOMAIN NumVal

\* String.prototype.toLowerCase on one token
LowerTable ==
  ("On" :> "on") @@ ("Passage" :> "passage") @@ ("Agreeing" :> "agreeing")
  @@ ("to" :> "to") @@ ("Amendment" :> "amendment") @@ ("No." :> "no.")
  @@ ("H.R." :> "h.r.") @@ ("HR" :> "hr") @@ ("S." :> "s.") @@ ("S" :> "s")
  @@ ("SA" :> "sa") @@ ("HA" :> "ha") @@ ("Amdt." :> "amdt.")
  @@ ("Roll" :> "roll") @@ ("Record" :> "record") @@ ("Vote" :> "vote")
  @@ ("Quorum" :> "quorum") @@ ("Call" :> "call") @@ ("MTR" :> "mtr")
  @@ ("Motion" :> "motion") @@ ("Recommit" :> "recommit")
  @@ ("Senate" :> "senate") @@ ("House" :> "house") @@ ("Floor" :> "floor")
  @@ ("Passed" :> "passed") @@ ("Received" :> "received") @@ ("in" :> "in")
  @@ ("the" :> "the") @@ ("Suspend" :> "suspend") @@ ("Rules" :> "rules")
  @@ ("and" :> "and") @@ ("Pass" :> "pass") @@ ("as" :> "as")
  @@ ("Amended" :> "amended") @@ ("Library" :> "library")
  @@ ("of" :> "of") @@ ("Congress" :> "congress")
  @@ ("H" :> "h") @@ ("R" :> "r") @@ ("J" :> "j") @@ ("Res" :> "res")
  @@ ("Con" :> "con") @@ ("HB" :> "hb") @@ ("SB" :> "sb") @@ ("SENATE" :> "senate")
  @@ ("Amdt" :> "amdt")

toLowerCase(tok) == IF tok \in DOMAIN LowerTable THEN LowerTable[tok] ELSE tok

LowerText(text) == [i \in 1..Len(text) |-> toLowerCase(text[i])]

\* String.prototype.trim and the collapse of \s+ : the tokens that are words
IsWord(tok) == tok # " "

Words(text) == SelectSeq(text, IsWord)

\* pat occurs in toks starting at position i
MatchAt(toks, i, pat) ==
  /\ i >= 1
  /\ i + Len(pat) - 1 <= Len(toks)
  /\ \A k \in 1..Len(pat) : toks[i + k - 1] = pat[k]

\* String.prototype.includes: the empty string is included in every string
Includes(hay, needle) == \E i \in 1..(Len(hay) + 1) : MatchAt(hay, i, needle)

\* a case-insensitive pattern /\bw1 w2 ...\b/i tested on a text
TestI(pat, text) == Includes(LowerText(Words(text)), pat)

\* a case-sensitive pattern /\bw1 w2 ...\b/ tested on a text
TestCS(pat, text) == Includes(Words(text), pat)


\* the least position of a non-empty set of positions
Leftmost(S) == CHOOSE i \in S : \A j \in S : i <= j

\* a pattern "one of the spellings in prefixes, then a number": the positions
\* of toks where it matches
NumAfterHits(toks, prefixes) ==
  { i \in 1..Len(toks) :
      \E p \in prefixes :
        /\ MatchAt(toks, i, p)
        /\ i + Len(p) <= Len(toks)
        /\ toks[i + Len(p)] \in NumToks }

\* the position of the number token (\d+) of the match at position i
NumPos(toks, i, prefixes) ==
  LET p == CHOOSE q \in prefixes :
             /\ MatchAt(toks, i, q)
             /\ i + Len(q) <= Len(toks)
             /\ toks[i + Len(q)] \in NumToks
  IN  i + Len(p)

\* the first pattern of a list that matches somewhere in toks, 0 if none does
FirstPatternOf(hits) == IF hits = {} THEN 0 ELSE Leftmost(hits)

FirstPattern(toks, pats) ==
  FirstPatternOf({ k \in 1..Len(pats) : NumAfterHits(toks, pats[k].prefixes) # {} })

\* the leftmost match of pattern k: where it starts and where its number is
MatchFrom(toks, k, prefixes, i) ==
  [k |-> k, start |-> i, num |-> NumPos(toks, i, prefixes)]

MatchOf(toks, pats, k) ==
  IF k = 0 THEN [k |-> 0, start |-> 0, num |-> 0]
  ELSE MatchFrom(toks, k, pats[k].prefixes,
                 Leftmost(NumAfterHits(toks, pats[k].prefixes)))

\* text.match(pattern) for the patterns of a list in turn: the first that matches
FirstMatch(toks, pats) == MatchOf(toks, pats, FirstPattern(toks, pats))

(***************************************************************************)
(* Key system (lib/vote_keys)                                              *)
(***************************************************************************)

validTypes == {"hr", "s", "hjres", "sjres", "hconres", "sconres", "hres", "sres"}

\* billType.toLowerCase().replace(/\./g, '') on the type spellings used
StripDotsTable ==
  ("HR" :> "hr") @@ ("H.R." :> "hr") @@ ("S" :> "s") @@ ("S." :> "s")
  @@ ("hr" :> "hr") @@ ("s" :> "s") @@ ("hjres" :> "hjres")
  @@ ("sjres" :> "sjres") @@ ("hconres" :> "hconres")
  @@ ("sconres" :> "sconres") @@ ("hres" :> "hres") @@ ("sres" :> "sres")
  @@ ("HX" :> "hx")

NormalizeType(billType) ==
  IF billType \in DOMAIN StripDotsTable THEN StripDotsTable[billType]
  ELSE billType

\* makeVoteKey for a chamber already in lower case, a date already a calendar
\* date and a roll number already an integer
makeVoteKey(chamber, date, rollNumber) ==
  IF date < 1 THEN KeyError
  ELSE IF rollNumber < 1 THEN KeyError
  ELSE <<chamber, date, rollNumber>>

\* makeBillKey: congress and billNumber are the integers parseInt gives
\* (NullNum for NaN)
makeBillKey(congress, billType, billNumber) ==
  IF congress < 1 THEN KeyError
  ELSE IF NormalizeType(billType) \notin validTypes THEN KeyError
  ELSE IF billNumber < 1 THEN KeyError
  ELSE <<congress, NormalizeType(billType), billNumber>>

\* the patterns of extractBillReference, in the order they are tried; each is
\* the spellings of the letters part, which a number follows
BillRefPatterns ==
  << [type |-> "hr",      prefixes |-> {<<"hr">>, <<"h.r.">>, <<"h", "r">>, <<"h.", "r.">>}],
     [type |-> "s",       prefixes |-> {<<"s">>, <<"s.">>}],
     [type |-> "hjres",   prefixes |-> {<<"hjres">>, <<"h.j.res.">>, <<"h", "j", "res">>}],
     [type |-> "sjres",   prefixes |-> {<<"sjres">>, <<"s.j.res.">>, <<"s", "j", "res">>}],
     [type |-> "hconres", prefixes |-> {<<"hconres">>, <<"h.con.res.">>, <<"h", "con", "res">>}],
     [type |-> "sconres", prefixes |-> {<<"sconres">>, <<"s.con.res.">>, <<"s", "con", "res">>}],
     [type |-> "hres",    prefixes |-> {<<"hres">>, <<"h.res.">>, <<"h", "res">>}],
     [type |-> "sres",    prefixes |-> {<<"sres">>, <<"s.res.">>, <<"s", "res">>}],
     [type |-> "hr",      prefixes |-> {<<"hr">>}],
     [type |-> "s",       prefixes |-> {<<"s">>}] >>

BillRefFrom(t, m) ==
  IF m.k = 0 THEN Null
  ELSE [billType   |-> BillRefPatterns[m.k].type,
        billNumber |-> NumVal[t[m.num]]]

BillRefIn(t) == BillRefFrom(t, FirstMatch(t, BillRefPatterns))

extractBillReference(text) ==
  IF text = EmptyText THEN Null ELSE BillRefIn(LowerText(Words(text)))

RollPatterns ==
  << [prefixes |-> {<<"roll", "no.">>, <<"roll", "no">>}],
     [prefixes |-> {<<"roll", "call">>, <<"roll", "call", "no.">>, <<"roll", "call", "no">>}],
     [prefixes |-> {<<"record", "vote">>, <<"record", "vote", "no.">>, <<"record", "vote", "no">>}] >>

RollFrom(t, m) == IF m.k = 0 THEN NullNum ELSE NumVal[t[m.num]]

RollIn(t) == RollFrom(t, FirstMatch(t, RollPatterns))

extractRollNumber(text) ==
  IF text = EmptyText THEN NullNum ELSE RollIn(LowerText(Words(text)))

(***************************************************************************)
(* Motion canonicalizer (lib/motion_normalizer.js)                         *)
(***************************************************************************)

\* MOTION_FAMILIES in table order.  Each pattern is the token sequence the
\* regular expression matches (an optional part gives two patterns); cs marks
\* the one pattern without the flag i.
Pat(p) == [pat |-> p, cs |-> FALSE]

MOTION_FAMILIES ==
  << [canonical |-> <<"On", "Passage">>,
      patterns  |-> << Pat(<<"on", "passage">>), Pat(<<"passage", "of">>),
                       Pat(<<"to", "pass">>), Pat(<<"final", "passage">>) >>],
     [canonical |-> <<"On", "Agreeing">>,
      patterns  |-> << Pat(<<"on", "agreeing", "to">>), Pat(<<"agreeing", "to">>),
                       Pat(<<"to", "agree">>) >>],
     [canonical |-> <<"Motion", "to", "Recommit">>,
      patterns  |-> << Pat(<<"motion", "to", "recommit">>),
                       [pat |-> <<"MTR">>, cs |-> TRUE],
                       Pat(<<"recommit">>) >>],
     [canonical |-> <<"Previous", "Question">>,
      patterns  |-> << Pat(<<"previous", "question">>),
                       Pat(<<"order", "the", "previous", "question">>) >>],
     [canonical |-> <<"Suspend", "the", "Rules">>,
      patterns  |-> << Pat(<<"suspend", "the", "rules">>),
                       Pat(<<"suspending", "the", "rules">>),
                       Pat(<<"suspension", "of", "the", "rules">>) >>],
     [canonical |-> <<"On", "the", "Amendment">>,
      patterns  |-> << Pat(<<"on", "the", "amendment">>), Pat(<<"amendment">>) >>],
     [canonical |-> <<"On", "the", "Resolution">>,
      patterns  |-> << Pat(<<"on", "the", "resolution">>),
                       Pat(<<"on", "adopting", "the", "resolution">>) >>],
     [canonical |-> <<"On", "the", "Conference", "Report">>,
      patterns  |-> << Pat(<<"conference", "report">>) >>],
     [canonical |-> <<"On", "Concurring">>,
      patterns  |-> << Pat(<<"on", "concurring">>), Pat(<<"concur">>) >>],
     [canonical |-> <<"On", "Cloture">>,
      patterns  |-> << Pat(<<"cloture">>), Pat(<<"motion", "to", "invoke", "cloture">>) >>],
     [canonical |-> <<"On", "the", "Motion", "to", "Proceed">>,
      patterns  |-> << Pat(<<"motion", "to", "proceed">>), Pat(<<"to", "proceed">>) >>],
     [canonical |-> <<"On", "the", "Nomination">>,
      patterns  |-> << Pat(<<"on", "the", "nomination">>), Pat(<<"nomination">>) >>] >>

\* pattern.test(normalized)
PatternTest(p, text) == IF p.cs THEN TestCS(p.pat, text) ELSE TestI(p.pat, text)

FamilyMatches(fam, text) ==
  \E j \in 1..Len(fam.patterns) : PatternTest(fam.patterns[j], text)

\* the bill-reference tokens simplifyMotionText removes (dotted spellings only)
DottedBillTypes ==
  {"h.r.", "s.", "h.j.res.", "s.j.res.", "h.con.res.", "s.con.res.", "h.res.", "s.res."}

\* the embedded dates \d{1,2}/\d{1,2}/\d{2,4} the texts use
DateToks == {"2/15/2024"}

RECURSIVE RemoveBillRefs(_)
RemoveBillRefs(toks) ==
  IF toks = <<>> THEN <<>>
  ELSE IF /\ Len(toks) >= 2
          /\ toLowerCase(toks[1]) \in DottedBillTypes
          /\ toks[2] \in NumToks
       THEN RemoveBillRefs(SubSeq(toks, 3, Len(toks)))
       ELSE <<Head(toks)>> \o RemoveBillRefs(Tail(toks))

RECURSIVE RemoveAsAmended(_)
RemoveAsAmended(toks) ==
  IF toks = <<>> THEN <<>>
  ELSE IF MatchAt(LowerText(toks), 1, <<",", "as", "amended">>)
       THEN RemoveAsAmended(SubSeq(toks, 4, Len(toks)))
  ELSE IF MatchAt(LowerText(toks), 1, <<"as", "amended">>)
       THEN RemoveAsAmended(SubSeq(toks, 3, Len(toks)))
       ELSE <<Head(toks)>> \o RemoveAsAmended(Tail(toks))

IsNotDate(tok) == tok \notin DateToks

simplifyMotionText(text) ==
  SelectSeq(RemoveAsAmended(RemoveBillRefs(Words(text))), IsNotDate)

\* the families with a pattern that matches, by their place in the table
FamilyHits(normalized) ==
  { k \in 1..Len(MOTION_FAMILIES) : FamilyMatches(MOTION_FAMILIES[k], normalized) }

\* the same, but the last family of the table that matches wins
CanonFrom_LastFamily(normalized, hits) ==
  IF hits # {}
  THEN [family |-> MOTION_FAMILIES[CHOOSE k \in hits : \A j \in hits : j <= k].canonical,
        confidence |-> "high"]
  ELSE [family |-> simplifyMotionText(normalized), confidence |-> "medium"]

CanonFrom(normalized, hits) ==
  IF hits # {}
  THEN [family |-> MOTION_FAMILIES[Leftmost(hits)].canonical, confidence |-> "high"]
  ELSE [family |-> simplifyMotionText(normalized), confidence |-> "medium"]

CanonOf(normalized) == CanonFrom(normalized, FamilyHits(normalized))

\* family: the canonical name, the simplified text, or <<>> for null / ''
canonicalizeMotion(motionText) ==
  IF motionText = EmptyText THEN [family |-> <<>>, confidence |-> "low"]
  ELSE CanonOf(Words(motionText))

\* the same, but the containment is tried in one direction only
CompareFrom_OneWay(canon1, canon2, simple1, simple2) ==
  IF canon1.family # <<>> /\ canon2.family # <<>> /\ canon1.family = canon2.family
  THEN [match |-> TRUE, score |-> 10]
  ELSE IF simple1 = simple2
  THEN [match |-> TRUE, score |-> 9]
  ELSE IF Includes(simple1, simple2)
  THEN [match |-> TRUE, score |-> 7]
  ELSE [match |-> FALSE, score |-> 0]

CompareFrom(canon1, canon2, simple1, simple2) ==
  IF canon1.family # <<>> /\ canon2.family # <<>> /\ canon1.family = canon2.family
  THEN [match |-> TRUE, score |-> 10]
  ELSE IF simple1 = simple2
  THEN [match |-> TRUE, score |-> 9]
  ELSE IF Includes(simple1, simple2) \/ Includes(simple2, simple1)
  THEN [match |-> TRUE, score |-> 7]
  ELSE [match |-> FALSE, score |-> 0]

compareMotions(motion1, motion2) ==
  CompareFrom(canonicalizeMotion(motion1), canonicalizeMotion(motion2),
              LowerText(simplifyMotionText(motion1)),
              LowerText(simplifyMotionText(motion2)))

\* the patterns of extractAmendment, in the order they are tried; group is the
\* capture group match[1] || match[2] picks: the number, or for the third
\* pattern the SA / HA token, which is its first group
AmendmentPatterns ==
  << [prefixes |-> {<<"amendment">>, <<"amendment", "no.">>}, group |-> "number"],
     [prefixes |-> {<<"amdt.">>, <<"amdt">>, <<"amdt.", "no.">>, <<"amdt", "no.">>},
      group |-> "number"],
     [prefixes |-> {<<"sa">>, <<"ha">>}, group |-> "prefix"] >>

AmendmentFrom(w, m) ==
  IF m.k = 0 THEN Null
  ELSE [type   |-> "amendment",
        number |-> IF AmendmentPatterns[m.k].group = "number" THEN w[m.num]
                   ELSE w[m.start]]

AmendmentIn(w) == AmendmentFrom(w, FirstMatch(LowerText(w), AmendmentPatterns))

extractAmendment(motionText) ==
  IF motionText = EmptyText THEN Null ELSE AmendmentIn(Words(motionText))

(***************************************************************************)
(* State                                                                   *)
(***************************************************************************)

VARIABLES
  indexKind,        \* which index the resolver is given: "billstatus" | "issues"
  filesLeft,        \* BILLSTATUS files of the directory not yet indexed
  actionsByDate,    \* BillStatusIndex: date -> Array<IndexedAction>
  actionsByBillKey, \* BillStatusIndex: bill_key -> Array<IndexedAction>
  actionsByRoll,    \* BillStatusIndex: chamber:date:roll -> IndexedAction
  billTextUrls,     \* BillStatusIndex: bill_key -> Array<{url, format}>
  issuesByCanonical,\* IssuesIndex: canonical id -> issue record
  issuesByBillKey,  \* IssuesIndex: bill_key -> issue record
  issuesById,       \* IssuesIndex: issue id -> issue record
  pc,               \* "load" until the resolver is constructed, then "resolve"
  resolutionLog,    \* VoteResolver.resolutionLog
  clock,            \* the time new Date() reads
  history,          \* the resolve calls made so far: the vote and the outcome
  ret,              \* what the latest call that assigns returned to its caller
  workers,          \* the resolvers that share the index: each its votes and its log
  call              \* the library function called last, its arguments and its result

indexVars == <<indexKind, actionsByDate, actionsByBillKey, actionsByRoll,
               billTextUrls, issuesByCanonical, issuesByBillKey, issuesById>>

vars == <<indexKind, filesLeft, actionsByDate, actionsByBillKey, actionsByRoll,
          billTextUrls, issuesByCanonical, issuesByBillKey, issuesById, pc,
          resolutionLog, clock, history, ret, workers, call>>

\* what the resolver and its index never assign
libraryVars == <<workers, call>>

\* no worker resolvers
NoWorkers == <<>>

\* no library call made
NoCall == [fn |-> "none"]

\* new Map()
EmptyMap == <<>>

\* map.get(k) || dflt
MapGet(m, k, dflt) == IF k \in DOMAIN m THEN m[k] ELSE dflt

\* map.set(k, v)
MapSet(m, k, v) == (k :> v) @@ m

(***************************************************************************)
(* Bounds and inputs                                                       *)
(***************************************************************************)

\* files one indexDirectory run indexes
MaxDocs == 2

\* rows the issues query returns
MaxRows == 2

\* resolve calls on one resolver
MaxCalls == 2

\* the congress of the votes and documents of the run
Congress == 119

\* the date of most votes; documents carry actions on VoteDay, the day after,
\* or no action date
VoteDay == 2

Txt_OnPassageRoll50 == <<"On", "Passage", "Roll", "no.", "50">>
Txt_QuorumCall      == <<"Quorum", "Call">>
Txt_SenateVote50    == <<"Passed", "Senate", "Record", "Vote", "50">>
Txt_Received        == <<"Received", "in", "the", "House">>

\* one <item> of <actions>: actionDate is <<>> when the element is missing,
\* <<d>> for a date and <<d, "T">> for a date with a time of day
RawAction(date, text, code, source) ==
  [actionDate |-> date, text |-> text, actionCode |-> code, sourceSystem |-> source]

\* parsed BILLSTATUS documents (the `bill` element; hasBill FALSE: no such element)
DocA ==
  [hasBill |-> TRUE, congress |-> Congress, billType |-> "HR", billNumber |-> 2766,
   textVersions |-> << [type |-> "Introduced in House",
                        formats |-> << [url |-> "urlA", type |-> NullStr] >>] >>,
   actions |-> << RawAction(<<VoteDay>>, Txt_OnPassageRoll50, "H37100", <<>>) >>]

DocB ==
  [hasBill |-> TRUE, congress |-> Congress, billType |-> "H.R.", billNumber |-> 5,
   textVersions |-> <<>>,
   actions |-> << RawAction(<<>>, Txt_Received, "", <<>>),
                  RawAction(<<VoteDay, "T">>, Txt_QuorumCall, "", <<>>) >>]

DocS ==
  [hasBill |-> TRUE, congress |-> Congress, billType |-> "S", billNumber |-> 58,
   textVersions |-> << [type |-> "Engrossed in Senate",
                        formats |-> << [url |-> "", type |-> "xml"],
                                       [url |-> "urlS", type |-> "xml"] >>] >>,
   actions |-> << RawAction(<<VoteDay + 1>>, Txt_SenateVote50, "", <<"Senate">>),
                  RawAction(<<VoteDay>>, Txt_Received, "", <<"House", "Floor">>),
                  RawAction(<<VoteDay>>, <<"50">>, "", <<>>),
                  RawAction(<<VoteDay>>, Txt_OnPassageRoll50, "", <<>>) >>]

DocBad ==
  [hasBill |-> TRUE, congress |-> Congress, billType |-> "HX", billNumber |-> 5,
   textVersions |-> << [type |-> "Introduced",
                        formats |-> << [url |-> "urlX", type |-> NullStr] >>] >>,
   actions |-> << RawAction(<<VoteDay>>, Txt_OnPassageRoll50, "", <<>>) >>]

Docs == {DocA, DocB, DocS, DocBad}


(***************************************************************************)
(* BillStatusIndex                                                         *)
(***************************************************************************)

\* the XML parser hands a tag whose content is digits over as a number
TextIsNumber(text) == Len(text) = 1 /\ text[1] \in NumToks

\* action.text || '' : the number 0 is falsy
ActionText(raw) == IF TextIsNumber(raw.text) THEN EmptyText ELSE raw.text

\* (action.text || '').toLowerCase() and text.match(...) are no functions of a
\* number: a TypeError inside the loop over the actions
ActionThrows(raw) == TextIsNumber(raw.text) /\ NumVal[raw.text[1]] # 0

StartsWithH(billType) == billType \in {"hr", "hjres", "hconres", "hres", "hx"}

StartsWithS(billType) == billType \in {"s", "sjres", "sconres", "sres"}

determineChamber(action, billType) ==
  LET source == LowerText(action.sourceSystem)
      text   == LowerText(Words(ActionText(action)))
  IN  IF action.sourceSystem # <<>> /\ Includes(source, <<"house">>) THEN "house"
      ELSE IF action.sourceSystem # <<>> /\ Includes(source, <<"senate">>) THEN "senate"
      ELSE IF \/ Includes(text, <<"house", "floor">>)
              \/ Includes(text, <<"house", "of", "representatives">>) THEN "house"
      ELSE IF Includes(text, <<"senate", "floor">>) \/ Includes(text, <<"senate">>)
           THEN "senate"
      ELSE IF StartsWithH(billType) THEN "house"
      ELSE IF StartsWithS(billType) THEN "senate"
      ELSE NullStr

\* the IndexedAction built in the loop body
MakeIndexedAction(billKey, billType, action) ==
  [bill_key    |-> billKey,
   action_date |-> action.actionDate[1],
   action_text |-> ActionText(action),
   roll_number |-> extractRollNumber(ActionText(action)),
   action_code |-> action.actionCode,
   chamber     |-> determineChamber(action, billType)]

\* the same pass, but the action goes to the front of its bill's list
IndexAction_Unshift(m, billKey, billType, action) ==
  IF action.actionDate = <<>> THEN m
  ELSE LET ia == MakeIndexedAction(billKey, billType, action)
       IN  [byDate    |-> MapSet(m.byDate, ia.action_date,
                                 Append(MapGet(m.byDate, ia.action_date, <<>>), ia)),
            byBillKey |-> MapSet(m.byBillKey, billKey,
                                 <<ia>> \o MapGet(m.byBillKey, billKey, <<>>)),
            byRoll    |-> IF ia.roll_number > 0 /\ ia.chamber # NullStr
                          THEN MapSet(m.byRoll,
                                      <<ia.chamber, ia.action_date, ia.roll_number>>, ia)
                          ELSE m.byRoll,
            threw     |-> FALSE]

\* one pass of the loop body over the three maps m = [byDate, byBillKey, byRoll]
IndexAction(m, billKey, billType, action) ==
  IF action.actionDate = <<>> THEN m
  ELSE LET ia == MakeIndexedAction(billKey, billType, action)
       IN  [byDate    |-> MapSet(m.byDate, ia.action_date,
                                 Append(MapGet(m.byDate, ia.action_date, <<>>), ia)),
            byBillKey |-> MapSet(m.byBillKey, billKey,
                                 Append(MapGet(m.byBillKey, billKey, <<>>), ia)),
            byRoll    |-> IF ia.roll_number > 0 /\ ia.chamber # NullStr
                          THEN MapSet(m.byRoll,
                                      <<ia.chamber, ia.action_date, ia.roll_number>>, ia)
                          ELSE m.byRoll,
            threw     |-> FALSE]

\* the loop over the actions, left when one of them throws
RECURSIVE IndexActions(_, _, _, _)
IndexActions(m, billKey, billType, actions) ==
  IF actions = <<>> THEN m
  ELSE IF Head(actions).actionDate # <<>> /\ ActionThrows(Head(actions))
       THEN [m EXCEPT !.threw = TRUE]
       ELSE IndexActions(IndexAction(m, billKey, billType, Head(actions)),
                         billKey, billType, Tail(actions))

\* the {url, format} entries of one text version
RECURSIVE FormatUrls(_, _)
FormatUrls(format, items) ==
  IF items = <<>> THEN <<>>
  ELSE (IF Head(items).url # ""
        THEN << [url    |-> Head(items).url,
                 format |-> IF Head(items).type # NullStr THEN Head(items).type
                            ELSE IF format.type # NullStr THEN format.type
                            ELSE "unknown"] >>
        ELSE <<>>) \o FormatUrls(format, Tail(items))

RECURSIVE CollectUrls(_)
CollectUrls(formats) ==
  IF formats = <<>> THEN <<>>
  ELSE FormatUrls(Head(formats), Head(formats).formats) \o CollectUrls(Tail(formats))

\* the billTextUrls map after indexBillTextUrls(billKey, bill)
indexBillTextUrls(billKey, bill) ==
  LET urls == CollectUrls(bill.textVersions)
  IN  IF Len(urls) > 0 THEN MapSet(billTextUrls, billKey, urls) ELSE billTextUrls

\* indexBillStatusFile: the maps it leaves and whether it threw
indexBillStatusFile(bill) ==
  LET now == [byDate |-> actionsByDate, byBillKey |-> actionsByBillKey,
              byRoll |-> actionsByRoll, threw |-> FALSE]
  IN  IF ~bill.hasBill THEN [maps |-> now, urls |-> billTextUrls, threw |-> TRUE]
      ELSE LET billType == NormalizeType(bill.billType)
               billKey  == makeBillKey(bill.congress, billType, bill.billNumber)
           IN  IF billKey = KeyError
               THEN [maps |-> now, urls |-> billTextUrls, threw |-> TRUE]
               ELSE LET m == IndexActions(now, billKey, billType, bill.actions)
                    IN  [maps |-> m, urls |-> indexBillTextUrls(billKey, bill),
                         threw |-> m.threw]

findByExactRoll(chamber, date, rollNumber, windowDays) ==
  LET exactKey == <<chamber, date, rollNumber>>
      offsets  == { o \in (0 - windowDays)..windowDays :
                      o # 0 /\ <<chamber, date + o, rollNumber>> \in DOMAIN actionsByRoll }
  IN  IF exactKey \in DOMAIN actionsByRoll THEN actionsByRoll[exactKey]
      ELSE IF date < 1 THEN Null
      ELSE IF offsets = {} THEN Null
      ELSE actionsByRoll[<<chamber, date + Leftmost(offsets), rollNumber>>]

OnDate(date, action) == action.action_date = date

findByBillAndDate(billKey, date) ==
  LET billActions == MapGet(actionsByBillKey, billKey, <<>>)
      keep(a)     == OnDate(date, a)
  IN  SelectSeq(billActions, keep)

findByDate(date) == MapGet(actionsByDate, date, <<>>)

getBillTextUrls(billKey) == MapGet(billTextUrls, billKey, <<>>)


(***************************************************************************)
(* IssuesIndex                                                             *)
(*                                                                         *)
(* A canonical bill id is the sequence of its runs of letters, digits and  *)
(* separators: "HR2766" is <<"HR", "2766">>, "hr5-119" is                  *)
(* <<"hr", "5", "-", "119">>; <<>> is null.                                *)
(***************************************************************************)

\* const congress = 119 in canonicalToBillKey
CurrentCongress == 119

\* String.prototype.toUpperCase on the letter runs used
UpperTable ==
  ("hr" :> "HR") @@ ("hb" :> "HB") @@ ("s" :> "S") @@ ("sb" :> "SB")
  @@ ("hjres" :> "HJRES") @@ ("sjres" :> "SJRES") @@ ("hconres" :> "HCONRES")
  @@ ("sconres" :> "SCONRES") @@ ("hres" :> "HRES") @@ ("sres" :> "SRES")

toUpperCase(tok) == IF tok \in DOMAIN UpperTable THEN UpperTable[tok] ELSE tok

UpperText(text) == [i \in 1..Len(text) |-> toUpperCase(text[i])]

\* the patterns ^LETTERS(\d+)$ of canonicalToBillKey and the type of each
CanonicalPatterns ==
  ("HCONRES" :> "hconres") @@ ("SCONRES" :> "sconres") @@ ("HJRES" :> "hjres")
  @@ ("SJRES" :> "sjres") @@ ("HRES" :> "hres") @@ ("SRES" :> "sres")
  @@ ("HR" :> "hr") @@ ("HB" :> "hr") @@ ("S" :> "s") @@ ("SB" :> "s")

canonicalToBillKey(canonical) ==
  IF canonical = <<>> THEN NullKey
  ELSE LET normalized == UpperText(Words(canonical))
       IN  IF /\ Len(normalized) = 2
              /\ normalized[1] \in DOMAIN CanonicalPatterns
              /\ normalized[2] \in NumToks
           THEN <<CurrentCongress, CanonicalPatterns[normalized[1]],
                  NumVal[normalized[2]]>>
           ELSE NullKey

\* [A-Z]+ on the letter runs used
IsUpperLetters(tok) == tok \in DOMAIN CanonicalPatterns

\* normalizedUpper.match(/^[A-Z]+\d+$/)
IsCompactForm(normalizedUpper) ==
  /\ Len(normalizedUpper) = 2
  /\ IsUpperLetters(normalizedUpper[1])
  /\ normalizedUpper[2] \in NumToks

\* first pass of indexFromDatabase
RECURSIVE IndexById(_, _)
IndexById(byId, rows) ==
  IF rows = <<>> THEN byId
  ELSE IndexById(MapSet(byId, Head(rows).id, Head(rows)), Tail(rows))

\* second pass, one row, over m = [byCanonical, byBillKey]
IndexCanonical(m, issue) ==
  LET m1 == IF issue.canonical_bill_id # <<>>
            THEN LET billKey == canonicalToBillKey(issue.canonical_bill_id)
                 IN  [byCanonical |-> MapSet(m.byCanonical,
                                             UpperText(issue.canonical_bill_id), issue),
                      byBillKey   |-> IF billKey # NullKey
                                      THEN MapSet(m.byBillKey, billKey, issue)
                                      ELSE m.byBillKey]
            ELSE m
  IN  IF issue.canonical_normalized # <<>>
      THEN LET normalized == UpperText(issue.canonical_normalized)
               billKey    == canonicalToBillKey(issue.canonical_normalized)
           IN  [byCanonical |-> IF normalized \notin DOMAIN m1.byCanonical
                                THEN MapSet(m1.byCanonical, normalized, issue)
                                ELSE m1.byCanonical,
                byBillKey   |-> IF billKey # NullKey /\ billKey \notin DOMAIN m1.byBillKey
                                THEN MapSet(m1.byBillKey, billKey, issue)
                                ELSE m1.byBillKey]
      ELSE m1

RECURSIVE IndexCanonicals(_, _)
IndexCanonicals(m, rows) ==
  IF rows = <<>> THEN m
  ELSE IndexCanonicals(IndexCanonical(m, Head(rows)), Tail(rows))

\* third pass, one identifier row
IndexIdentifier(m, byId, ident) ==
  IF ident.normalized_id = <<>> THEN m
  ELSE IF ident.issue_id \notin DOMAIN byId THEN m
  ELSE LET issue == byId[ident.issue_id]
           normalizedUpper == UpperText(ident.normalized_id)
           billKey == canonicalToBillKey(normalizedUpper)
       IN  IF IsCompactForm(normalizedUpper)
           THEN [byCanonical |-> IF normalizedUpper \notin DOMAIN m.byCanonical
                                 THEN MapSet(m.byCanonical, normalizedUpper, issue)
                                 ELSE m.byCanonical,
                 byBillKey   |-> IF billKey # NullKey /\ billKey \notin DOMAIN m.byBillKey
                                 THEN MapSet(m.byBillKey, billKey, issue)
                                 ELSE m.byBillKey]
           ELSE m

RECURSIVE IndexIdentifiers(_, _, _)
IndexIdentifiers(m, byId, idents) ==
  IF idents = <<>> THEN m
  ELSE IndexIdentifiers(IndexIdentifier(m, byId, Head(idents)), byId, Tail(idents))

\* the three maps indexFromDatabase leaves
indexFromDatabase(rows, identifiers) ==
  LET byId == IndexById(issuesById, rows)
      m    == IndexIdentifiers(
                IndexCanonicals([byCanonical |-> issuesByCanonical,
                                 byBillKey   |-> issuesByBillKey], rows),
                byId, identifiers)
  IN  [byId |-> byId, byCanonical |-> m.byCanonical, byBillKey |-> m.byBillKey]

findByBillKey(billKey) ==
  IF billKey = NullKey THEN Null ELSE MapGet(issuesByBillKey, billKey, Null)

IssuesIndex_getBillTextUrls(billKey) ==
  LET issue == findByBillKey(billKey)
  IN  IF issue = Null THEN <<>>
      ELSE (IF issue.external_ids.congressgov_url # ""
            THEN << [url |-> issue.external_ids.congressgov_url, format |-> "html"] >>
            ELSE <<>>)
           \o
           (IF issue.external_ids.legiscan_url # ""
            THEN << [url |-> issue.external_ids.legiscan_url, format |-> "html"] >>
            ELSE <<>>)

IssuesIndex_findByExactRoll(chamber, date, rollNumber, windowDays) == Null

IssuesIndex_findByBillAndDate(billKey, date) == <<>>

IssuesIndex_findByDate(date) == <<>>

\* rows of the issues table
Issue(id, title, canonicalBillId, canonicalNormalized, congressUrl, legiscanUrl) ==
  [id |-> id, title |-> title, canonical_bill_id |-> canonicalBillId,
   canonical_normalized |-> canonicalNormalized,
   external_ids |-> [congressgov_url |-> congressUrl, legiscan_url |-> legiscanUrl]]

IssueRows ==
  { Issue(1, "Bill A", <<"HR", "2766">>, <<>>, "cgA", ""),
    Issue(2, "Bill B", <<"hr", "5", "-", "119">>, <<"HB", "5">>, "", "lsB"),
    Issue(3, "Bill A again", <<>>, <<"hr", "2766">>, "", "") }

\* rows of the issue_identifiers table
IdentifierRows == { [normalized_id |-> <<"s", "58">>, issue_id |-> 1] }

\* the sequences of at most n distinct members of S
SeqsOf(S, n) ==
  UNION { { q \in [1..k -> S] : \A i, j \in 1..k : i # j => q[i] # q[j] } : k \in 0..n }


(***************************************************************************)
(* VoteResolver                                                            *)
(***************************************************************************)

\* typeof this.index.findByBillKey === 'function'
HasFindByBillKey == indexKind = "issues"

index_findByExactRoll(chamber, date, rollNumber, windowDays) ==
  IF indexKind = "issues"
  THEN IssuesIndex_findByExactRoll(chamber, date, rollNumber, windowDays)
  ELSE findByExactRoll(chamber, date, rollNumber, windowDays)

index_findByBillAndDate(billKey, date) ==
  IF indexKind = "issues" THEN IssuesIndex_findByBillAndDate(billKey, date)
  ELSE findByBillAndDate(billKey, date)

index_findByDate(date) ==
  IF indexKind = "issues" THEN IssuesIndex_findByDate(date) ELSE findByDate(date)

index_getBillTextUrls(billKey) ==
  IF indexKind = "issues" THEN IssuesIndex_getBillTextUrls(billKey)
  ELSE getBillTextUrls(billKey)

\* urls.map(u => u.url)
UrlsOf(urls) == [i \in 1..Len(urls) |-> urls[i].url]

\* {} where a metadata object is expected
EmptyObject == [empty |-> TRUE]

\* null where a reason text is expected
NullText == <<NullStr>>

resolveByDirectBillKey(vote) ==
  IF vote.bill_key = NullKey THEN Null
  ELSE IF HasFindByBillKey /\ findByBillKey(vote.bill_key) # Null
  THEN LET issue == findByBillKey(vote.bill_key)
       IN  [bill_key       |-> vote.bill_key,
            issue_id       |-> issue.id,
            issue_title    |-> issue.title,
            bill_text_urls |-> UrlsOf(index_getBillTextUrls(vote.bill_key))]
  ELSE Null

\* the window the resolver passes to findByExactRoll
RollWindowDays == 1

\* a roll lookup that asks for the day after the vote and no window
resolveByExactRoll_NextDay(vote) ==
  index_findByExactRoll(vote.chamber, vote.vote_date + 1, vote.roll_number, 0)

resolveByExactRoll(vote) ==
  index_findByExactRoll(vote.chamber, vote.vote_date, vote.roll_number, RollWindowDays)

\* a bill + same-date strategy that never finds anything
resolveByBillSameDay_Never(vote) == Null

resolveByBillSameDay(vote) ==
  IF vote.bill_key = NullKey THEN Null
  ELSE LET actions == index_findByBillAndDate(vote.bill_key, vote.vote_date)
       IN  IF Len(actions) > 0 THEN actions[1] ELSE Null

\* the minimum score of a motion match, in tenths
MinMotionScore == 7

\* the same comparison, but a later action of the same score replaces the best
MotionUpdate_LastWins(action, comparison, best) ==
  IF /\ comparison.match
     /\ comparison.score >= MinMotionScore
     /\ comparison.score >= best.bestScore
  THEN [bestMatch |-> action, bestScore |-> comparison.score]
  ELSE best

\* the comparison of the loop body of resolveByMotion
MotionUpdate(action, comparison, best) ==
  IF /\ comparison.match
     /\ comparison.score >= MinMotionScore
     /\ comparison.score > best.bestScore
  THEN [bestMatch |-> action, bestScore |-> comparison.score]
  ELSE best

\* the loop body of resolveByMotion
MotionStep(vote, action, best) ==
  IF action.chamber # NullStr /\ action.chamber # vote.chamber THEN best
  ELSE MotionUpdate(action, compareMotions(vote.question, action.action_text), best)

\* the loop of resolveByMotion from action i on: [bestMatch, bestScore] at its end
RECURSIVE MotionScan(_, _, _, _)
MotionScan(vote, actions, i, best) ==
  IF i > Len(actions) THEN best
  ELSE MotionScan(vote, actions, i + 1, MotionStep(vote, actions[i], best))

\* a motion match that reports half the score it found
MotionResult_HalfScore(best) ==
  IF best.bestMatch # Null
  THEN [confidence |-> best.bestScore \div 2, motion_score |-> best.bestScore]
       @@ best.bestMatch
  ELSE Null

MotionResult(best) ==
  IF best.bestMatch # Null
  THEN [confidence |-> best.bestScore, motion_score |-> best.bestScore]
       @@ best.bestMatch
  ELSE Null

resolveByMotion(vote) ==
  MotionResult(MotionScan(vote, index_findByDate(vote.vote_date), 1,
                          [bestMatch |-> Null, bestScore |-> 0]))

\* resolveByAmendment: an action with the amendment number, null, or the
\* Error makeBillKey throws
FirstWithAmendment(amendment, actions) ==
  IF Len(actions) > 0
  THEN [amendment_number |-> amendment.number] @@ actions[1]
  ELSE Null

AmendmentByKey(vote, amendment, billKey) ==
  IF billKey = KeyError THEN Raised
  ELSE FirstWithAmendment(amendment, index_findByBillAndDate(billKey, vote.vote_date))

AmendmentByReference(vote, amendment, billRef) ==
  IF billRef = Null THEN Null
  ELSE AmendmentByKey(vote, amendment,
                      makeBillKey(vote.congress, billRef.billType, billRef.billNumber))

AmendmentFor(vote, amendment, own) ==
  IF amendment = Null THEN Null
  ELSE IF Len(own) > 0 THEN FirstWithAmendment(amendment, own)
  ELSE AmendmentByReference(vote, amendment, extractBillReference(vote.question))

resolveByAmendment(vote) ==
  AmendmentFor(vote, extractAmendment(vote.question),
               IF vote.bill_key # NullKey
               THEN index_findByBillAndDate(vote.bill_key, vote.vote_date)
               ELSE <<>>)

getDateOffset(date1, date2) == date2 - date1

\* reasons.join('; ')
RECURSIVE Join(_)
Join(reasons) ==
  IF reasons = <<>> THEN <<>>
  ELSE IF Len(reasons) = 1 THEN reasons
  ELSE <<Head(reasons), ";">> \o Join(Tail(reasons))

SameOrUnknownChamber(vote, a) == a.chamber = NullStr \/ a.chamber = vote.chamber

\* a failure reason that is the default whatever the vote and the index hold
determineFailureReason_Default(vote) == <<"no_matching_criteria">>

determineFailureReason(vote) ==
  LET actionsOnDate  == index_findByDate(vote.vote_date)
      keep(a)        == SameOrUnknownChamber(vote, a)
      chamberActions == SelectSeq(actionsOnDate, keep)
      r1 == IF vote.bill_key = NullKey /\ vote.bill_number = EmptyText
            THEN <<"no_bill_reference_in_vote">> ELSE <<>>
      r2 == IF Len(actionsOnDate) = 0 THEN <<"no_actions_indexed_for_date">> ELSE <<>>
      r3 == IF Len(chamberActions) = 0 THEN <<"no_chamber_actions_on_date">> ELSE <<>>
      r4 == IF vote.question = EmptyText \/ Len(Words(vote.question)) = 0
            THEN <<"no_motion_text">> ELSE <<>>
      reasons == r1 \o r2 \o r3 \o r4
  IN  Join(IF Len(reasons) = 0 THEN <<"no_matching_criteria">> ELSE reasons)

\* a result object that starts as a full-confidence one
InitialResult_Resolved(vote) ==
  [vote_key       |-> vote.vote_key,
   bill_key       |-> NullKey,
   match_step     |-> "none",
   confidence     |-> 10,
   reason_if_none |-> NullText,
   bill_text_urls |-> <<>>,
   metadata       |-> EmptyObject]

\* the result object resolve starts from
InitialResult(vote) ==
  [vote_key       |-> vote.vote_key,
   bill_key       |-> NullKey,
   match_step     |-> "none",
   confidence     |-> 0,
   reason_if_none |-> NullText,
   bill_text_urls |-> <<>>,
   metadata       |-> EmptyObject]

\* the body of resolve over what the five strategies give
ResolveFrom(vote, result, directMatch, exactRoll, sameDay, motion, amendment) ==
      IF vote.bill_key # NullKey /\ directMatch # Null
      THEN [result EXCEPT
              !.bill_key = directMatch.bill_key,
              !.match_step = "direct_bill_key",
              !.confidence = 10,
              !.bill_text_urls = directMatch.bill_text_urls,
              !.metadata = [issue_id    |-> directMatch.issue_id,
                            issue_title |-> directMatch.issue_title]]
      ELSE IF exactRoll # Null
      THEN [result EXCEPT
              !.bill_key = exactRoll.bill_key,
              !.match_step = "exact_roll",
              !.confidence = 10,
              !.bill_text_urls = UrlsOf(index_getBillTextUrls(exactRoll.bill_key)),
              !.metadata = [action_text |-> exactRoll.action_text,
                            action_date |-> exactRoll.action_date,
                            date_offset |-> getDateOffset(vote.vote_date,
                                                          exactRoll.action_date)]]
      ELSE IF vote.bill_key # NullKey /\ sameDay # Null
      THEN [result EXCEPT
              !.bill_key = sameDay.bill_key,
              !.match_step = "bill_same_day",
              !.confidence = 9,
              !.bill_text_urls = UrlsOf(index_getBillTextUrls(sameDay.bill_key)),
              !.metadata = [action_text |-> sameDay.action_text,
                            action_date |-> sameDay.action_date]]
      ELSE IF motion # Null
      THEN [result EXCEPT
              !.bill_key = motion.bill_key,
              !.match_step = "motion",
              !.confidence = motion.confidence,
              !.bill_text_urls = UrlsOf(index_getBillTextUrls(motion.bill_key)),
              !.metadata = [action_text  |-> motion.action_text,
                            action_date  |-> motion.action_date,
                            motion_score |-> motion.motion_score]]
      ELSE IF amendment = Raised THEN Raised
      ELSE IF amendment # Null
      THEN [result EXCEPT
              !.bill_key = amendment.bill_key,
              !.match_step = "amendment",
              !.confidence = 7,
              !.bill_text_urls = UrlsOf(index_getBillTextUrls(amendment.bill_key)),
              !.metadata = [action_text      |-> amendment.action_text,
                            action_date      |-> amendment.action_date,
                            amendment_number |-> amendment.amendment_number,
                            parent_bill      |-> amendment.bill_key]]
      ELSE [result EXCEPT !.reason_if_none = determineFailureReason(vote)]

\* a resolve that leaves the exact roll match out
resolve_SkipsExactRoll(vote) ==
  ResolveFrom(vote, InitialResult(vote), resolveByDirectBillKey(vote),
              Null, resolveByBillSameDay(vote),
              resolveByMotion(vote), resolveByAmendment(vote))

\* a resolve that writes the time of the call into the result
resolve_ReadsClock(vote) ==
  [InitialResult(vote) EXCEPT
     !.reason_if_none = <<"no_matching_criteria">>,
     !.metadata = [at |-> clock]]

\* a resolve that writes the size of its log into the result
resolve_CountsLog(vote) ==
  [InitialResult(vote) EXCEPT
     !.reason_if_none = <<"no_matching_criteria">>,
     !.metadata = [seen |-> Len(resolutionLog)]]

\* resolve(vote): the ResolutionResult it returns, or Raised
resolve(vote) ==
  ResolveFrom(vote, InitialResult(vote), resolveByDirectBillKey(vote),
              resolveByExactRoll(vote), resolveByBillSameDay(vote),
              resolveByMotion(vote), resolveByAmendment(vote))

\* the entry logResolution pushes
LogEntry(result, now) == [timestamp |-> now] @@ result


\* the values of match_step
Steps == {"direct_bill_key", "exact_roll", "bill_same_day", "motion", "amendment", "none"}

\* (x / total * 100).toFixed(2) + '%', as a number of hundredths of a percent
Rate(x, total) == (x * 20000 + total) \div (2 * total)

\* a count that gives every step the whole log
CountStep_WholeLog(log, step) == Len(log)

CountStep(log, step) == Cardinality({ i \in 1..Len(log) : log[i].match_step = step })

getStats ==
  LET total   == Len(resolutionLog)
      byStep  == [st \in Steps |-> CountStep(resolutionLog, st)]
      totalResolved   == Cardinality({ i \in 1..total :
                                         resolutionLog[i].match_step # "none" })
      missingTextUrls == Cardinality({ i \in 1..total :
                                         /\ resolutionLog[i].match_step # "none"
                                         /\ Len(resolutionLog[i].bill_text_urls) = 0 })
  IN  IF total = 0 THEN [total |-> 0]
      ELSE [total                |-> total,
            resolved             |-> totalResolved,
            unresolved           |-> byStep["none"],
            resolution_rate      |-> Rate(totalResolved, total),
            exact_roll_rate      |-> Rate(byStep["exact_roll"], total),
            direct_bill_key_rate |-> Rate(byStep["direct_bill_key"], total),
            by_step              |-> byStep,
            missing_text_urls    |-> missingTextUrls]

IsNone(r) == r.match_step = "none"

getUnresolved == SelectSeq(resolutionLog, IsNone)

(***************************************************************************)
(* Normalized votes given to resolve                                       *)
(***************************************************************************)

KeyA == makeBillKey(Congress, "hr", 2766)

KeyB == makeBillKey(Congress, "hr", 5)

Q_Empty     == <<>>
Q_Blank     == <<" ">>
Q_OnPassage == <<"On", "Passage">>
Q_Quorum    == <<"quorum", "call">>
Q_Amend5    == <<"On", "Agreeing", "to", "Amendment", "No.", "3", "to", "H.R.", "5">>
Q_Amend0    == <<"On", "Agreeing", "to", "Amendment", "No.", "3", "to", "H.R.", "0">>

\* the bill_number a reader sets together with the bill key
BillNumberOf(billKey) ==
  IF billKey = NullKey THEN <<>>
  ELSE <<toUpperCase(billKey[2]), ToString(billKey[3])>>

Vote(chamber, date, roll, billKey, question) ==
  [vote_key    |-> makeVoteKey(chamber, date, roll),
   chamber     |-> chamber,
   congress    |-> Congress,
   roll_number |-> roll,
   vote_date   |-> date,
   question    |-> question,
   bill_number |-> BillNumberOf(billKey),
   bill_key    |-> billKey]

Votes ==
  { Vote("house", VoteDay, 50, NullKey, Q_OnPassage),
    Vote("house", VoteDay, 50, KeyB, Q_OnPassage),
    Vote("house", VoteDay, 51, KeyB, Q_Quorum),
    Vote("house", VoteDay, 51, KeyA, Q_OnPassage),
    Vote("house", VoteDay, 51, NullKey, Q_OnPassage),
    Vote("house", VoteDay, 51, NullKey, Q_Empty),
    Vote("house", VoteDay, 51, NullKey, Q_Blank),
    Vote("house", VoteDay, 51, NullKey, Q_Quorum),
    Vote("house", VoteDay, 51, NullKey, Q_Amend5),
    Vote("house", VoteDay, 51, KeyA, Q_Amend5),
    Vote("house", VoteDay, 51, NullKey, Q_Amend0),
    Vote("senate", VoteDay, 50, NullKey, Q_OnPassage),
    Vote("senate", VoteDay, 51, KeyA, Q_Amend0),
    Vote("senate", VoteDay + 2, 50, NullKey, Q_Empty) }

(***************************************************************************)
(* Actions                                                                 *)
(***************************************************************************)

Init ==
  /\ indexKind \in {"billstatus", "issues"}
  /\ filesLeft = Docs
  /\ actionsByDate = EmptyMap
  /\ actionsByBillKey = EmptyMap
  /\ actionsByRoll = EmptyMap
  /\ billTextUrls = EmptyMap
  /\ issuesByCanonical = EmptyMap
  /\ issuesByBillKey = EmptyMap
  /\ issuesById = EmptyMap
  /\ pc = "load"
  /\ resolutionLog = <<>>
  /\ clock = 0
  /\ history = <<>>
  /\ ret = [op |-> "none"]
  /\ workers = NoWorkers
  /\ call = NoCall

\* one pass of the loop of indexDirectory: indexBillStatusFile(file) in its
\* try / catch
IndexBillStatusFile(file) ==
  /\ pc = "load"
  /\ indexKind = "billstatus"
  /\ file \in filesLeft
  /\ Cardinality(Docs \ filesLeft) < MaxDocs
  /\ LET r == indexBillStatusFile(file)
     IN  /\ actionsByDate' = r.maps.byDate
         /\ actionsByBillKey' = r.maps.byBillKey
         /\ actionsByRoll' = r.maps.byRoll
         /\ billTextUrls' = r.urls
         /\ ret' = [op |-> "indexBillStatusFile", threw |-> r.threw]
  /\ filesLeft' = filesLeft \ {file}
  /\ UNCHANGED <<indexKind, issuesByCanonical, issuesByBillKey, issuesById, pc,
                 resolutionLog, clock, history, libraryVars>>

\* indexFromDatabase over what the two queries return
IndexFromDatabase(rows, identifiers) ==
  /\ pc = "load"
  /\ indexKind = "issues"
  /\ issuesById = EmptyMap
  /\ LET r == indexFromDatabase(rows, identifiers)
     IN  /\ issuesById' = r.byId
         /\ issuesByCanonical' = r.byCanonical
         /\ issuesByBillKey' = r.byBillKey
  /\ ret' = [op |-> "indexFromDatabase", total_issues |-> Len(rows)]
  /\ UNCHANGED <<indexKind, filesLeft, actionsByDate, actionsByBillKey, actionsByRoll,
                 billTextUrls, pc, resolutionLog, clock, history, libraryVars>>

\* new VoteResolver(index)
NewResolver ==
  /\ pc = "load"
  /\ pc' = "resolve"
  /\ resolutionLog' = <<>>
  /\ ret' = [op |-> "new"]
  /\ UNCHANGED <<indexVars, filesLeft, clock, history, libraryVars>>

\* what a resolve call leaves: the entry logResolution pushed unless the call
\* raised, and what the caller got
Returns(vote, result) ==
  /\ resolutionLog' = IF result = Raised THEN resolutionLog
                      ELSE Append(resolutionLog, LogEntry(result, clock))
  /\ history' = Append(history, [vote |-> vote, outcome |-> result])
  /\ ret' = [op |-> "resolve", value |-> result]

\* resolver.resolve(vote)
Resolve(vote) ==
  /\ pc = "resolve"
  /\ Len(history) < MaxCalls
  /\ Returns(vote, resolve(vote))
  /\ clock' = clock + 1
  /\ UNCHANGED <<indexVars, filesLeft, pc, libraryVars>>

\* resolver.getStats(): it returns getStats and assigns nothing
GetStats ==
  /\ pc = "resolve"
  /\ UNCHANGED vars

\* resolver.getUnresolved(): it returns getUnresolved, a new array, and
\* assigns nothing
GetUnresolved ==
  /\ pc = "resolve"
  /\ UNCHANGED vars

Next ==
  \/ \E file \in Docs : IndexBillStatusFile(file)
  \/ \E rows \in SeqsOf(IssueRows, MaxRows), identifiers \in SeqsOf(IdentifierRows, 1) :
       IndexFromDatabase(rows, identifiers)
  \/ NewResolver
  \/ \E vote \in Votes : Resolve(vote)
  \/ GetStats
  \/ GetUnresolved

Spec == Init /\ [][Next]_vars

(***************************************************************************)
(* Properties of the resolver                                              *)
(*                                                                         *)
(* history holds every resolve call made so far, with the vote it was      *)
(* given and what came of it; the index is complete before the resolver    *)
(* is constructed, so the index a call saw is the index of the state.      *)
(***************************************************************************)

Calls == 1..Len(history)

Returned(i) == history[i].outcome # Raised

\* what each strategy, taken alone, gives for the vote, in priority order
StrategyOrder ==
  <<"direct_bill_key", "exact_roll", "bill_same_day", "motion", "amendment">>

MatcherSucceeds(vote, step) ==
  CASE step = "direct_bill_key" ->
         vote.bill_key # NullKey /\ resolveByDirectBillKey(vote) # Null
    [] step = "exact_roll" -> resolveByExactRoll(vote) # Null
    [] step = "bill_same_day" ->
         vote.bill_key # NullKey /\ resolveByBillSameDay(vote) # Null
    [] step = "motion" -> resolveByMotion(vote) # Null
    [] step = "amendment" -> resolveByAmendment(vote) \notin {Null, Raised}

MatchOfStep(vote, step) ==
  CASE step = "direct_bill_key" -> resolveByDirectBillKey(vote)
    [] step = "exact_roll" -> resolveByExactRoll(vote)
    [] step = "bill_same_day" -> resolveByBillSameDay(vote)
    [] step = "motion" -> resolveByMotion(vote)
    [] step = "amendment" -> resolveByAmendment(vote)

Succeeding(vote) == { k \in 1..Len(StrategyOrder) : MatcherSucceeds(vote, StrategyOrder[k]) }

\* the place of the earliest strategy that succeeds, 0 when none does
Earliest(succeeding) == IF succeeding = {} THEN 0 ELSE Leftmost(succeeding)

\* the result reports strategy k and the bill its matcher found
Reports(vote, out, k) ==
  IF k = 0 THEN out.match_step = "none"
  ELSE /\ out.match_step = StrategyOrder[k]
       /\ out.bill_key = MatchOfStep(vote, StrategyOrder[k]).bill_key

\* C1: every result resolve returns reports the earliest strategy, in the
\* order direct bill key, exact roll, bill same day, motion, amendment, whose
\* matcher succeeds on the vote, with the bill key that matcher found; it
\* reports "none" exactly when no matcher succeeds.  Every call is the
\* latest call of the state it leads to, and the index it saw is the index
\* of that state.
C1_FirstSuccessWins ==
  (Len(history) > 0 /\ Returned(Len(history))) =>
    Reports(history[Len(history)].vote, history[Len(history)].outcome,
            Earliest(Succeeding(history[Len(history)].vote)))

\* a vote whose own bill B has an action on the vote's date and whose roll
\* is indexed for another bill A was resolved, by exact roll, to A
C1_Witness ==
  \E i \in Calls :
    /\ Returned(i)
    /\ history[i].vote.bill_key = KeyB
    /\ resolveByBillSameDay(history[i].vote) # Null
    /\ resolveByBillSameDay(history[i].vote).bill_key = KeyB
    /\ history[i].outcome.match_step = "exact_roll"
    /\ history[i].outcome.bill_key = KeyA

\* C2: resolve never raises for a well-formed vote: every call made returned
\* a result.  A question that names an amendment and the bill "H.R. 0" makes
\* resolveByAmendment call makeBillKey with bill number 0, which throws.
C2_NeverRaises == \A i \in Calls : Returned(i)

\* the actions the document index holds
IndexedActions ==
  UNION { { actionsByDate[d][k] : k \in 1..Len(actionsByDate[d]) } :
          d \in DOMAIN actionsByDate }

SameRoll(a, b) ==
  /\ a.chamber = b.chamber
  /\ a.action_date = b.action_date
  /\ a.roll_number = b.roll_number

\* action a is the one action indexed under the vote's chamber, date and roll
OnlyActionOfRoll(a, vote) ==
  /\ a.chamber = vote.chamber
  /\ a.action_date = vote.vote_date
  /\ a.roll_number = vote.roll_number
  /\ \A b \in IndexedActions : SameRoll(a, b) => b = a

\* C3: when the index holds an action of bill B with a known chamber, a date
\* and a roll number, and no other action under that chamber, date and roll,
\* every vote of that chamber, date and roll without a bill key resolves to
\* B by exact roll with confidence 1.0.
C3_ExactRollMatch ==
  \A i \in Calls : \A a \in IndexedActions :
    (history[i].vote.bill_key = NullKey /\ OnlyActionOfRoll(a, history[i].vote)) =>
      /\ Returned(i)
      /\ history[i].outcome.match_step = "exact_roll"
      /\ history[i].outcome.confidence = 10
      /\ history[i].outcome.bill_key = a.bill_key

C3_Witness ==
  \E i \in Calls : \E a \in IndexedActions :
    /\ history[i].vote.bill_key = NullKey
    /\ OnlyActionOfRoll(a, history[i].vote)
    /\ a.bill_key = KeyA
    /\ Returned(i)
    /\ history[i].outcome.match_step = "exact_roll"

\* nothing has been indexed
IndexIsEmpty ==
  /\ actionsByDate = EmptyMap
  /\ actionsByBillKey = EmptyMap
  /\ actionsByRoll = EmptyMap
  /\ billTextUrls = EmptyMap
  /\ issuesByCanonical = EmptyMap
  /\ issuesByBillKey = EmptyMap
  /\ issuesById = EmptyMap

Mentions(reason, condition) == \E k \in 1..Len(reason) : reason[k] = condition

\* C4: against an index into which nothing has been indexed every vote
\* resolves to bill key null, "none", confidence 0.0 and a reason that names
\* no_actions_indexed_for_date.  The vote of C2 raises instead.
C4_EmptyIndexGivesNone ==
  \A i \in Calls :
    IndexIsEmpty =>
      /\ Returned(i)
      /\ history[i].outcome.bill_key = NullKey
      /\ history[i].outcome.match_step = "none"
      /\ history[i].outcome.confidence = 0
      /\ Mentions(history[i].outcome.reason_if_none, "no_actions_indexed_for_date")

\* the confidence each strategy gives, in tenths
ConfidenceFits(r) ==
  CASE r.match_step \in {"direct_bill_key", "exact_roll"} -> r.confidence = 10
    [] r.match_step = "bill_same_day" -> r.confidence = 9
    [] r.match_step = "motion" -> r.confidence >= 7
    [] r.match_step = "amendment" -> r.confidence = 7
    [] r.match_step = "none" -> r.confidence = 0

ResultIsSound(r) ==
  /\ r.match_step \in Steps
  /\ r.confidence \in 0..10
  /\ (r.bill_key = NullKey) <=> (r.match_step = "none")
  /\ (r.match_step = "none") <=> (r.confidence = 0)
  /\ (r.confidence = 0) <=> (r.reason_if_none # NullText)
  /\ r.reason_if_none # EmptyText
  /\ ConfidenceFits(r)

\* C5: every result resolve returns and every log entry has a confidence in
\* [0,1]; its bill key is null exactly when its strategy is "none", exactly
\* when its confidence is 0.0 and exactly when it has a failure reason; the
\* confidence is 1.0 for direct and exact roll, 0.9 for bill same day, at
\* least 0.7 for motion and 0.7 for amendment.
C5_ResultInvariant ==
  /\ \A i \in Calls : Returned(i) => ResultIsSound(history[i].outcome)
  /\ \A k \in 1..Len(resolutionLog) : ResultIsSound(resolutionLog[k])

\* the log holds an unresolved entry and a motion match
C5_Witness ==
  /\ \E k \in 1..Len(resolutionLog) : resolutionLog[k].match_step = "none"
  /\ \E k \in 1..Len(resolutionLog) :
       resolutionLog[k].match_step = "motion" /\ resolutionLog[k].confidence >= 7

\* a resolve call that returns pushes its result with the time and touches
\* nothing else; getStats and getUnresolved touch neither log nor index
LogFrame ==
  /\ pc = "resolve" => UNCHANGED indexVars
  /\ (ret'.op = "resolve" /\ Len(history') > Len(history)) =>
       IF ret'.value = Raised THEN resolutionLog' = resolutionLog
       ELSE resolutionLog' = Append(resolutionLog, LogEntry(ret'.value, clock))
  /\ (GetStats \/ GetUnresolved) => UNCHANGED <<resolutionLog, indexVars>>

\* C6: each resolve call appends its result and a timestamp to the log and
\* changes nothing else, getStats and getUnresolved change nothing, and after
\* n resolve calls the log has n entries in call order.  A call that raises
\* (C2) leaves no entry, so the log falls behind the calls.
C6_OneEntryPerCall ==
  /\ Len(resolutionLog) = Len(history)
  /\ \A k \in 1..Len(resolutionLog) :
       k <= Len(history) => resolutionLog[k] = LogEntry(history[k].outcome, k - 1)

\* what getStats reports, when it reports the counts at all
StatsAddUp(stats, log) ==
  /\ DOMAIN stats = {"total", "resolved", "unresolved", "resolution_rate",
                     "exact_roll_rate", "direct_bill_key_rate", "by_step",
                     "missing_text_urls"}
  /\ stats.total = Len(log)
  /\ stats.by_step["direct_bill_key"] + stats.by_step["exact_roll"]
       + stats.by_step["bill_same_day"] + stats.by_step["motion"]
       + stats.by_step["amendment"] + stats.by_step["none"] = Len(log)
  /\ stats.resolved = stats.total - stats.by_step["none"]
  /\ stats.unresolved = Len(getUnresolved)

\* C7 as stated: after any sequence of resolve calls, the empty one too,
\* getStats reports per-strategy counts that sum to the number of log
\* entries, resolved = total - count("none") and unresolved = the number of
\* entries getUnresolved returns.
C7_StatsAddUpAlways ==
  pc = "resolve" => StatsAddUp(getStats, resolutionLog)

\* C7 amended: getStats reports those counts whenever the log is not empty;
\* on an empty log it reports total 0 and nothing else.
C7_StatsAddUp ==
  pc = "resolve" =>
    IF Len(resolutionLog) = 0 THEN getStats = [total |-> 0]
    ELSE StatsAddUp(getStats, resolutionLog)

\* the log holds a resolved and an unresolved entry, and getStats counts them
C7_Witness ==
  /\ pc = "resolve"
  /\ Len(resolutionLog) = 2
  /\ getStats.resolved = 1
  /\ getStats.unresolved = 1
  /\ getStats.by_step["exact_roll"] = 1

\* the log entry of call i: the one stamped with the time of the call
EntryOf(i) == { k \in 1..Len(resolutionLog) : resolutionLog[k].timestamp = i - 1 }

Unstamped(entry) == [entry EXCEPT !.timestamp = 0]

ConditionHolds(vote, condition) ==
  CASE condition = "no_bill_reference_in_vote" ->
         vote.bill_key = NullKey /\ vote.bill_number = EmptyText
    [] condition = "no_actions_indexed_for_date" ->
         Len(index_findByDate(vote.vote_date)) = 0
    [] condition = "no_chamber_actions_on_date" ->
         ~ \E k \in 1..Len(index_findByDate(vote.vote_date)) :
             index_findByDate(vote.vote_date)[k].chamber \in {NullStr, vote.chamber}
    [] condition = "no_motion_text" ->
         \A k \in 1..Len(vote.question) : vote.question[k] = " "

Conditions ==
  <<"no_bill_reference_in_vote", "no_actions_indexed_for_date",
    "no_chamber_actions_on_date", "no_motion_text">>

Holding(vote) == { k \in 1..Len(Conditions) : ConditionHolds(vote, Conditions[k]) }

\* the reason is names separated by semicolons, no name twice
IsSemicolonList(reason) ==
  /\ Len(reason) % 2 = 1
  /\ \A k \in 1..Len(reason) : (reason[k] = ";") <=> (k % 2 = 0)
  /\ \A k \in 1..Len(reason) : \A l \in 1..Len(reason) :
       (k # l /\ k % 2 = 1 /\ l % 2 = 1) => reason[k] # reason[l]

Listed(reason) == { reason[k] : k \in { l \in 1..Len(reason) : l % 2 = 1 } }

\* C9: the failure reason of an unresolved vote lists exactly those of the
\* four conditions that hold for the vote and the index, joined by
\* semicolons; it is never empty, and it is "no_matching_criteria" exactly
\* when none of the four holds.
C9_FailureReason ==
  \A i \in Calls :
    (Returned(i) /\ history[i].outcome.match_step = "none") =>
      LET vote   == history[i].vote
          reason == history[i].outcome.reason_if_none
      IN  /\ reason # EmptyText
          /\ reason # NullText
          /\ IsSemicolonList(reason)
          /\ (Holding(vote) = {}) <=> (reason = <<"no_matching_criteria">>)
          /\ Holding(vote) # {} =>
               Listed(reason) = { Conditions[k] : k \in Holding(vote) }

\* one unresolved vote got the default reason, another all four conditions
C9_Witness ==
  /\ \E i \in Calls :
       /\ Returned(i)
       /\ history[i].outcome.match_step = "none"
       /\ history[i].outcome.reason_if_none = <<"no_matching_criteria">>
  /\ \E i \in Calls :
       /\ Returned(i)
       /\ history[i].outcome.match_step = "none"
       /\ Len(history[i].outcome.reason_if_none) = 7

\* C10: the direct lookup is used only for a vote with a bill key against
\* an index with findByBillKey; against the issue index every vote resolves
\* by the direct strategy with confidence 1.0, exactly when its bill key is
\* indexed, or else to "none" with a reason, and never to an error; against
\* the document index no result is a direct one.  The vote of C2 raises
\* against the issue index too.
C10_DirectLookup ==
  \A i \in Calls :
    LET vote == history[i].vote
        out  == history[i].outcome
    IN  /\ indexKind = "issues" =>
             /\ Returned(i)
             /\ IF vote.bill_key # NullKey /\ vote.bill_key \in DOMAIN issuesByBillKey
                THEN out.match_step = "direct_bill_key" /\ out.confidence = 10
                ELSE out.match_step = "none" /\ out.reason_if_none # NullText
        /\ (indexKind = "billstatus" /\ Returned(i)) =>
             out.match_step # "direct_bill_key"

\* the frame of the log: what C6 says of the calls that return
ReturningCallsAppend == [][LogFrame]_vars

(***************************************************************************)
(* Confidence along the priority order                                     *)
(***************************************************************************)

\* the place of a strategy in the priority order
PlaceOf(step) == CHOOSE k \in 1..Len(StrategyOrder) : StrategyOrder[k] = step

Resolved == { k \in 1..Len(resolutionLog) : resolutionLog[k].match_step # "none" }

\* C11 as stated: of any two resolved results, the one of the strategy
\* earlier in the order has a confidence at least that of the other; so a
\* motion result is never more confident than a bill same day result.
C11_ConfidenceNeverIncreases ==
  \A a \in Resolved : \A b \in Resolved :
    PlaceOf(resolutionLog[a].match_step) < PlaceOf(resolutionLog[b].match_step) =>
      resolutionLog[a].confidence >= resolutionLog[b].confidence

\* C11 amended: the same, for every pair whose later strategy is not the
\* motion match; a motion result carries the score of its comparison, 0.7,
\* 0.9 or 1.0, which is never below the 0.7 of an amendment result.
C11_ConfidenceOrder ==
  /\ \A a \in Resolved : \A b \in Resolved :
       (/\ PlaceOf(resolutionLog[a].match_step) < PlaceOf(resolutionLog[b].match_step)
        /\ resolutionLog[b].match_step # "motion") =>
         resolutionLog[a].confidence >= resolutionLog[b].confidence
  /\ \A a \in Resolved :
       resolutionLog[a].match_step = "motion" =>
         resolutionLog[a].confidence \in {7, 9, 10}

\* the log holds a motion result and an amendment result
C11_Witness ==
  /\ \E a \in Resolved : resolutionLog[a].match_step = "motion"
  /\ \E b \in Resolved :
       resolutionLog[b].match_step = "amendment" /\ resolutionLog[b].confidence = 7

(***************************************************************************)
(* Several resolvers over one index                                        *)
(*                                                                         *)
(* One resolver first resolves a batch of votes in order (history).  The   *)
(* batch is then split among NumWorkers resolvers constructed over the     *)
(* same index, each with a log of its own; their resolve calls interleave  *)
(* in any order, one call at a time.                                       *)
(***************************************************************************)

NumWorkers == 2

Workers == 1..NumWorkers

\* the votes of a batch
BatchVotes ==
  { Vote("house", VoteDay, 50, NullKey, Q_OnPassage),
    Vote("house", VoteDay, 51, KeyA, Q_OnPassage),
    Vote("house", VoteDay, 51, NullKey, Q_Amend0) }

\* the places of the batch given to worker w, in batch order
RECURSIVE ShareOf(_, _, _)
ShareOf(assign, w, i) ==
  IF i > Len(assign) THEN <<>>
  ELSE (IF assign[i] = w THEN <<i>> ELSE <<>>) \o ShareOf(assign, w, i + 1)

\* new VoteResolver(index) for every worker, each given its share of the batch
Split(assign) ==
  /\ pc = "resolve"
  /\ pc' = "workers"
  /\ workers' = [w \in Workers |-> [queue         |-> ShareOf(assign, w, 1),
                                    resolutionLog |-> <<>>,
                                    done          |-> <<>>]]
  /\ ret' = [op |-> "new"]
  /\ UNCHANGED <<indexVars, filesLeft, resolutionLog, clock, history, call>>

\* what a resolve call of worker w leaves in the worker's own log
WorkerReturns(w, place, result) ==
  /\ workers' =
       [workers EXCEPT
          ![w] = [queue         |-> Tail(@.queue),
                  resolutionLog |-> IF result = Raised THEN @.resolutionLog
                                    ELSE Append(@.resolutionLog,
                                                LogEntry(result, clock)),
                  done          |-> Append(@.done, [place   |-> place,
                                                    at      |-> clock,
                                                    outcome |-> result])]]
  /\ ret' = [op |-> "resolve", value |-> result]

\* worker w resolves the next vote of its share
WorkerResolve(w) ==
  /\ pc = "workers"
  /\ workers[w].queue # <<>>
  /\ WorkerReturns(w, Head(workers[w].queue),
                   resolve(history[Head(workers[w].queue)].vote))
  /\ clock' = clock + 1
  /\ UNCHANGED <<indexVars, filesLeft, pc, resolutionLog, history, call>>

NextWorkers ==
  \/ \E file \in Docs : IndexBillStatusFile(file)
  \/ \E rows \in SeqsOf(IssueRows, MaxRows), identifiers \in SeqsOf(IdentifierRows, 1) :
       IndexFromDatabase(rows, identifiers)
  \/ NewResolver
  \/ \E vote \in BatchVotes : Resolve(vote)
  \/ \E assign \in [1..Len(history) -> Workers] : Split(assign)
  \/ \E w \in Workers : WorkerResolve(w)

SpecWorkers == Init /\ [][NextWorkers]_vars

\* the workers' logs one after the other
RECURSIVE MergedFrom(_)
MergedFrom(w) ==
  IF w > NumWorkers THEN <<>> ELSE workers[w].resolutionLog \o MergedFrom(w + 1)

ResolvedCount(log) == Len(log) - CountStep(log, "none")

SameCounts(merged, single) ==
  /\ Len(merged) = Len(single)
  /\ \A st \in Steps : CountStep(merged, st) = CountStep(single, st)
  /\ ResolvedCount(merged) = ResolvedCount(single)

AllShared == \A w \in Workers : workers[w].queue = <<>>

DateError == -2

\* the date strings a document carries: none, "19-Sep-2025", "19-Xyz-2025",
\* "2025-09-19", "September 19, 2025" and a text no parser accepts
DateForms == {"missing", "dd-Mmm-yyyy", "dd-Xyz-yyyy", "iso", "long", "text"}

\* parseEVSDate: the DD-MMM-YYYY pattern with its month table first, then
\* new Date(dateStr)
parseEVSDate(dateStr) ==
  IF dateStr.form = "missing" THEN DateError
  ELSE IF dateStr.form = "dd-Mmm-yyyy" THEN dateStr.day
  ELSE IF dateStr.form = "dd-Xyz-yyyy" THEN DateError
  ELSE IF dateStr.form = "text" THEN DateError
  ELSE dateStr.day

\* parseSenateDate: new Date(dateStr) only (the process runs at UTC, so the
\* local midnight of the spelled-out forms is the same calendar day)
parseSenateDate(dateStr) ==
  IF dateStr.form = "missing" THEN DateError
  ELSE IF dateStr.form \in {"dd-Xyz-yyyy", "text"} THEN DateError
  ELSE dateStr.day

\* makeVoteKey on what a reader hands it: the date it parsed (a thrown date
\* never gets here) and the roll number parseInt gave
ReaderVoteKey(chamber, voteDate, rollNumber) ==
  makeVoteKey(chamber, voteDate, rollNumber)

\* normalizeVoteValue on the vote values the member lists use
normalizeVoteValue(voteValue) ==
  IF voteValue \in {"Yea", "Aye", "yes", "Y"} THEN "Yea"
  ELSE IF voteValue \in {"Nay", "No", "n"} THEN "Nay"
  ELSE IF voteValue \in {"Present", "P"} THEN "Present"
  ELSE "Not Voting"

\* the number of members of a list whose normalized vote is value
RECURSIVE CountVotes(_, _)
CountVotes(members, value) ==
  IF members = <<>> THEN 0
  ELSE (IF normalizeVoteValue(Head(members).vote) = value THEN 1 ELSE 0)
       + CountVotes(Tail(members), value)

\* a || b on two texts
OrText(a, b) == IF a # EmptyText THEN a ELSE b

\* a || b on two bill references
OrRef(a, b) == IF a # Null THEN a ELSE b

\* the votes array parseEVSXML pushes
XMLVotes(members) ==
  [i \in 1..Len(members) |->
     [bioguide_id |-> members[i].id, vote |-> normalizeVoteValue(members[i].vote)]]

XMLFrom(doc, congress, rollNumber, voteDate, voteKey, billReference, billKey) ==
  IF voteKey = KeyError \/ billKey = KeyError THEN Raised
  ELSE [vote_key       |-> voteKey,
        chamber        |-> "house",
        congress       |-> congress,
        roll_number    |-> rollNumber,
        date           |-> voteDate,
        question       |-> doc.question,
        bill_reference |-> billReference,
        bill_key       |-> billKey,
        result         |-> doc.result,
        yeas           |-> CountVotes(doc.members, "Yea"),
        nays           |-> CountVotes(doc.members, "Nay"),
        present        |-> CountVotes(doc.members, "Present"),
        not_voting     |-> CountVotes(doc.members, "Not Voting"),
        votes          |-> XMLVotes(doc.members),
        source         |-> "first_party"]

\* the bill key a reader makes of the reference it found, null if it found none
KeyOfRef(congress, billRef) ==
  IF billRef = Null THEN NullKey
  ELSE makeBillKey(congress, billRef.billType, billRef.billNumber)

XMLDated(doc, voteDate, billReference) ==
  IF voteDate = DateError THEN Raised
  ELSE XMLFrom(doc, doc.congress, doc.roll, voteDate,
               ReaderVoteKey("house", voteDate, doc.roll), billReference,
               KeyOfRef(doc.congress, billReference))

\* parseEVSXML on the object the XML parser made of the document
parseEVSXML(doc) ==
  IF ~doc.root THEN Raised
  ELSE XMLDated(doc, parseEVSDate(doc.date),
                OrRef(extractBillReference(OrText(doc.legis_num, doc.bill_number)),
                      extractBillReference(doc.question)))

\* extractBillReferenceFromEVS: the explicit field, else the question, else
\* the legis_num field
extractBillReferenceFromEVS(data) ==
  IF data.bill_number # EmptyText THEN extractBillReference(data.bill_number)
  ELSE IF data.question # EmptyText THEN extractBillReference(data.question)
  ELSE IF data.legis_num # EmptyText THEN extractBillReference(data.legis_num)
  ELSE Null

\* `${billRef.billType.toUpperCase()} ${billRef.billNumber}`, null without a
\* reference
BillNumberText(billRef) ==
  IF billRef = Null THEN EmptyText
  ELSE <<toUpperCase(billRef.billType), ToString(billRef.billNumber)>>

\* parseMemberVotes: the records that have both an id and a vote
JSONMembers(members) ==
  LET kept == SelectSeq(members, LAMBDA m : m.id # NullStr)
  IN  [i \in 1..Len(kept) |->
         [bioguide_id |-> kept[i].id, vote |-> normalizeVoteValue(kept[i].vote)]]

JSONFrom(data, voteDate, voteKey, billRef, billKey) ==
  IF voteKey = KeyError \/ billKey = KeyError THEN Raised
  ELSE [vote_key         |-> voteKey,
        chamber          |-> "house",
        congress         |-> data.congress,
        session          |-> data.session,
        roll_number      |-> data.roll,
        vote_date        |-> voteDate,
        question         |-> data.question,
        bill_number      |-> BillNumberText(billRef),
        bill_key         |-> billKey,
        result           |-> data.result,
        yea_count        |-> data.counts.yea,
        nay_count        |-> data.counts.nay,
        present_count    |-> data.counts.present,
        not_voting_count |-> data.counts.notVoting,
        members          |-> JSONMembers(data.members),
        metadata         |-> [source |-> "evs_house", legis_num |-> data.legis_num,
                              raw_date |-> data.date]]

JSONDated(data, voteDate, billRef) ==
  IF voteDate = DateError THEN Raised
  ELSE JSONFrom(data, voteDate, ReaderVoteKey("house", voteDate, data.roll),
                billRef, KeyOfRef(data.congress, billRef))

\* parseEVSJSON on the text of a document: JSON.parse throws on a text that
\* is no JSON
parseEVSJSON(data) ==
  IF ~data.root THEN Raised
  ELSE JSONDated(data, parseEVSDate(data.date), extractBillReferenceFromEVS(data))

\* the typeMap of parseSenateDocumentType after the dots are removed
SenateTypeMap ==
  ("S." :> "s") @@ ("S" :> "s") @@ ("H.R." :> "hr") @@ ("HR" :> "hr")
  @@ ("S.Res." :> "sres") @@ ("H.Res." :> "hres")
  @@ ("S.J.Res." :> "sjres") @@ ("H.J.Res." :> "hjres")
  @@ ("S.Con.Res." :> "sconres") @@ ("H.Con.Res." :> "hconres")

\* parseSenateDocumentType: nominations, treaties, numbers parseInt cannot
\* read and types outside the map give null
parseSenateDocumentType(docType, docNumber) ==
  IF docType \in {"PN", "Treaty"} THEN Null
  ELSE IF docNumber = NullNum THEN Null
  ELSE IF docType \in DOMAIN SenateTypeMap
       THEN [billType |-> SenateTypeMap[docType], billNumber |-> docNumber]
  ELSE Null

NoDocument == [document_type |-> NullStr, document_number |-> NullNum]

\* extractBillReferenceFromSenate: the document fields, else the question,
\* else the document text (the field a House document calls legis_num)
extractBillReferenceFromSenate(rollCall) ==
  IF rollCall.document # NoDocument
    THEN parseSenateDocumentType(rollCall.document.document_type,
                                 rollCall.document.document_number)
  ELSE IF rollCall.question # EmptyText THEN extractBillReference(rollCall.question)
  ELSE IF rollCall.legis_num # EmptyText THEN extractBillReference(rollCall.legis_num)
  ELSE Null

\* formatBillNumber: the display spelling of the type, then the number
DisplayTable ==
  ("hr" :> "H.R.") @@ ("s" :> "S.") @@ ("hjres" :> "H.J.Res.")
  @@ ("sjres" :> "S.J.Res.") @@ ("hconres" :> "H.Con.Res.")
  @@ ("sconres" :> "S.Con.Res.") @@ ("hres" :> "H.Res.") @@ ("sres" :> "S.Res.")

formatBillNumber(billRef) ==
  <<DisplayTable[billRef.billType], ToString(billRef.billNumber)>>

\* normalizeSenateVote on the vote values the member lists use
normalizeSenateVote(voteValue) ==
  IF voteValue \in {"Yea", "Aye", "yes", "Guilty"} THEN "Yea"
  ELSE IF voteValue \in {"Nay", "No", "Not Guilty"} THEN "Nay"
  ELSE IF voteValue = "Present" THEN "Present"
  ELSE "Not Voting"

\* parseSenateMembers: the members that have an id
SenateMembers(members) ==
  LET kept == SelectSeq(members, LAMBDA m : m.id # NullStr)
  IN  [i \in 1..Len(kept) |->
         [bioguide_id |-> kept[i].id, vote |-> normalizeSenateVote(kept[i].vote)]]

SenateFrom(rollCall, voteDate, voteKey, billRef, billKey) ==
  IF voteKey = KeyError \/ billKey = KeyError THEN Raised
  ELSE [vote_key       |-> voteKey,
        chamber        |-> "senate",
        congress       |-> rollCall.congress,
        session        |-> rollCall.session,
        roll_number    |-> rollCall.roll,
        date           |-> voteDate,
        question       |-> rollCall.question,
        bill_reference |-> IF billRef = Null THEN EmptyText ELSE formatBillNumber(billRef),
        bill_key       |-> billKey,
        result         |-> rollCall.result,
        yeas           |-> rollCall.counts.yea,
        nays           |-> rollCall.counts.nay,
        present        |-> rollCall.counts.present,
        not_voting     |-> rollCall.counts.absent + rollCall.counts.notVoting,
        votes          |-> SenateMembers(rollCall.members),
        source         |-> "first_party"]

SenateDated(rollCall, voteDate, billRef) ==
  IF voteDate = DateError THEN Raised
  ELSE SenateFrom(rollCall, voteDate, ReaderVoteKey("senate", voteDate, rollCall.roll),
                  billRef, KeyOfRef(rollCall.congress, billRef))

\* parseSenateXML on the object the XML parser made of the document
parseSenateXML(rollCall) ==
  IF ~rollCall.root THEN Raised
  ELSE SenateDated(rollCall, parseSenateDate(rollCall.date),
                   extractBillReferenceFromSenate(rollCall))

\* readEVSFiles: each file in its try / catch, by its extension; a file that
\* cannot be read, or whose parse throws, is logged and left out
Unreadable == [unreadable |-> TRUE]

ParseByExt(file) ==
  IF file.content = Unreadable THEN Raised
  ELSE IF file.ext = ".json" THEN parseEVSJSON(file.content)
  ELSE IF file.ext = ".xml" THEN parseEVSXML(file.content)
  ELSE Raised

PushVote(votes, vote) == IF vote = Raised THEN votes ELSE Append(votes, vote)

RECURSIVE ReadFrom(_, _)
ReadFrom(files, votes) ==
  IF files = <<>> THEN votes
  ELSE ReadFrom(Tail(files), PushVote(votes, ParseByExt(Head(files))))

readEVSFiles(files) == ReadFrom(files, <<>>)

(***************************************************************************)
(* Documents                                                               *)
(***************************************************************************)

MaxFiles == 2

Q_PassHR0 == <<"On", "Passage", "H.R.", "0">>

Txt_HR2766 == <<"H.R.", "2766">>

MemberList == << [id |-> "A000001", vote |-> "Aye"], [id |-> NullStr, vote |-> "No"] >>

RawDate(form) == [form |-> form, day |-> VoteDay]

\* the objects the parsers make of the documents: root tells whether the
\* required root element is there (for a JSON text, whether it is JSON),
\* congress and roll are what parseInt gives for the fields
Document(root, congress, roll, form, question, billNumber, document, members) ==
  [root        |-> root,
   congress    |-> congress,
   session     |-> 1,
   roll        |-> roll,
   date        |-> RawDate(form),
   question    |-> question,
   bill_number |-> billNumber,
   legis_num   |-> EmptyText,
   document    |-> document,
   result      |-> "Passed",
   counts      |-> [yea |-> 1, nay |-> 1, present |-> 0, notVoting |-> 0, absent |-> 1],
   members     |-> members]

Documents ==
  { Document(root, congress, roll, form, question, billNumber, document, members) :
      root \in BOOLEAN, congress \in {NullNum, Congress}, roll \in {NullNum, 0, 51},
      form \in DateForms, question \in {Q_Empty, Q_OnPassage, Q_Amend5, Q_PassHR0},
      billNumber \in {EmptyText, Txt_HR2766, Txt_QuorumCall},
      document \in {NoDocument, [document_type |-> "PN", document_number |-> 58],
                    [document_type |-> "S.", document_number |-> 58]},
      members \in {<<>>, MemberList} }

GoodDocument ==
  Document(TRUE, Congress, 51, "dd-Mmm-yyyy", Q_Amend5, EmptyText, NoDocument, MemberList)

Files ==
  { [ext |-> ext, content |-> content] :
      ext \in {".json", ".xml", ".txt"},
      content \in { GoodDocument,
                    Document(TRUE, Congress, 50, "iso", Q_OnPassage, Txt_HR2766, NoDocument, <<>>),
                    Document(TRUE, Congress, 51, "text", Q_OnPassage, EmptyText, NoDocument, <<>>),
                    Document(TRUE, NullNum, 51, "iso", Q_Amend5, EmptyText, NoDocument, <<>>),
                    Unreadable } }

(***************************************************************************)
(* The readers as operations                                               *)
(***************************************************************************)

InitLibrary ==
  /\ indexKind = "billstatus"
  /\ filesLeft = Docs
  /\ actionsByDate = EmptyMap
  /\ actionsByBillKey = EmptyMap
  /\ actionsByRoll = EmptyMap
  /\ billTextUrls = EmptyMap
  /\ issuesByCanonical = EmptyMap
  /\ issuesByBillKey = EmptyMap
  /\ issuesById = EmptyMap
  /\ pc = "library"
  /\ resolutionLog = <<>>
  /\ clock = 0
  /\ history = <<>>
  /\ ret = [op |-> "none"]
  /\ workers = NoWorkers
  /\ call = NoCall

\* a call of a function of the library: what it was given, what it gave
Called(fn, args, result) ==
  /\ call = NoCall
  /\ call' = [fn |-> fn, args |-> args, result |-> result]
  /\ UNCHANGED <<indexVars, filesLeft, pc, resolutionLog, clock, history, ret, workers>>

ParseEVSXML(doc) ==
  /\ pc = "library"
  /\ Called("parseEVSXML", doc, parseEVSXML(doc))

ParseEVSJSON(doc) ==
  /\ pc = "library"
  /\ Called("parseEVSJSON", doc, parseEVSJSON(doc))

ParseSenateXML(doc) ==
  /\ pc = "library"
  /\ Called("parseSenateXML", doc, parseSenateXML(doc))

ReadEVSFiles(files) ==
  /\ pc = "library"
  /\ Called("readEVSFiles", files, readEVSFiles(files))

NextReaders ==
  \/ \E doc \in Documents : ParseEVSXML(doc)
  \/ \E doc \in Documents : ParseEVSJSON(doc)
  \/ \E doc \in Documents : ParseSenateXML(doc)
  \/ \E files \in SeqsOf(Files, MaxFiles) : ReadEVSFiles(files)

SpecReaders == InitLibrary /\ [][NextReaders]_vars

Readers == {"parseEVSXML", "parseEVSJSON", "parseSenateXML"}

Parsed == call.fn \in Readers /\ call.result # Raised

\* the fields of its argument that resolve and the strategies read
ResolverReads ==
  {"vote_key", "bill_key", "vote_date", "chamber", "roll_number", "question",
   "congress", "bill_number"}

\* C13: every reader returns the Normalized Vote under the names the
\* resolver reads, so that its output can be passed to resolve unchanged:
\* each output has every field resolve reads (the vote date above all).
C13_ReadersEmitResolverFields ==
  Parsed => ResolverReads \subseteq DOMAIN call.result

\* the date strings that spell a calendar date
ParsableDate(dateStr) == dateStr.form \in {"dd-Mmm-yyyy", "iso", "long"}

\* C14: a document with its root element, a parsable date and a numeric,
\* positive roll number is never rejected, whatever its bill reference, its
\* congress field, its counts and its member list are.
C14_RejectsOnlyAsListed ==
  /\ call.fn \in Readers
  /\ call.args.root
  /\ ParsableDate(call.args.date)
  /\ call.args.roll >= 1
  => call.result # Raised

\* C15: a file whose indexing throws contributes nothing to the index: the
\* step of indexDirectory that catches the Error leaves the action maps and
\* the bill-text locators as they were.
C15_FailedFileLeavesNothing ==
  [][(filesLeft' # filesLeft /\ ret'.op = "indexBillStatusFile" /\ ret'.threw)
       => UNCHANGED indexVars]_vars

(***************************************************************************)
(* Bill-identifier normalizer (normalizeBillId)                            *)
(*                                                                         *)
(* A bill reference is the sequence of its runs of letters, its runs of    *)
(* digits, its runs of white space (" ") and its dots and dashes:          *)
(* "H.R. 2766" is <<"H", ".", "R", ".", " ", "2766">>.                      *)
(***************************************************************************)

Separators == {" ", ".", "-"}

IsDigits(tok) == tok \in NumToks

IsLetters(tok) == tok \notin NumToks /\ tok \notin Separators

\* the number of digits of a run of digits
RECURSIVE DigitCount(_)
DigitCount(n) == IF n < 10 THEN 1 ELSE 1 + DigitCount(n \div 10)

\* String.prototype.trim
RECURSIVE TrimLeft(_)
TrimLeft(text) ==
  IF text # <<>> /\ Head(text) = " " THEN TrimLeft(Tail(text)) ELSE text

RECURSIVE TrimRight(_)
TrimRight(text) ==
  IF text # <<>> /\ text[Len(text)] = " "
  THEN TrimRight(SubSeq(text, 1, Len(text) - 1)) ELSE text

\* String(billRef).toLowerCase().trim().replace(/\s+/g, ' ')
CleanRef(billRef) == TrimLeft(TrimRight(LowerText(billRef)))

\* cleaned.match(/[- ]+(\d{3})$/)
CongressMatch(cleaned) ==
  /\ Len(cleaned) >= 2
  /\ IsDigits(cleaned[Len(cleaned)])
  /\ DigitCount(NumVal[cleaned[Len(cleaned)]]) = 3
  /\ cleaned[Len(cleaned) - 1] \in {"-", " "}

\* the text with its trailing dashes and white space removed
RECURSIVE DropDashes(_)
DropDashes(text) ==
  IF text # <<>> /\ text[Len(text)] \in {"-", " "}
  THEN DropDashes(SubSeq(text, 1, Len(text) - 1)) ELSE text

\* cleaned.replace(/[- ]+\d{3}$/, '')
StripCongress(cleaned) == DropDashes(SubSeq(cleaned, 1, Len(cleaned) - 1))

\* BILL_TYPE_MAPPINGS, each key as its runs
BILL_TYPE_MAPPINGS ==
  (<<"hr">> :> "hr") @@ (<<"h", ".", "r", ".">> :> "hr") @@ (<<"h", ".", "r">> :> "hr")
  @@ (<<"h", "r">> :> "hr") @@ (<<"hb">> :> "hr") @@ (<<"house", "bill">> :> "hr")
  @@ (<<"s">> :> "s") @@ (<<"s", ".">> :> "s") @@ (<<"sb">> :> "s")
  @@ (<<"senate", "bill">> :> "s")
  @@ (<<"hjres">> :> "hjres") @@ (<<"h", "j", "res">> :> "hjres") @@ (<<"hjr">> :> "hjres")
  @@ (<<"sjres">> :> "sjres") @@ (<<"s", "j", "res">> :> "sjres") @@ (<<"sjr">> :> "sjres")
  @@ (<<"hconres">> :> "hconres") @@ (<<"h", "con", "res">> :> "hconres")
  @@ (<<"hcr">> :> "hconres")
  @@ (<<"sconres">> :> "sconres") @@ (<<"s", "con", "res">> :> "sconres")
  @@ (<<"scr">> :> "sconres")
  @@ (<<"hres">> :> "hres") @@ (<<"h", "res">> :> "hres")
  @@ (<<"sres">> :> "sres") @@ (<<"s", "res">> :> "sres")

\* BILL_TYPE_MAPPINGS[key], undefined as NullStr
TypeOfKey(key) ==
  IF key \in DOMAIN BILL_TYPE_MAPPINGS THEN BILL_TYPE_MAPPINGS[key] ELSE NullStr

\* cleaned.match(/^([a-z]+[\.\s]*(?:[a-z]+[\.\s]*)*?)[\s\.\-]*(\d+)$/): runs
\* of letters with dots and white space between them, then any dots, dashes
\* and white space, then one run of digits that ends the text
LastLetters(cleaned) ==
  CHOOSE i \in 1..Len(cleaned) :
    IsLetters(cleaned[i]) /\ \A j \in (i + 1)..Len(cleaned) : ~IsLetters(cleaned[j])

StandardMatch(cleaned) ==
  /\ Len(cleaned) >= 2
  /\ IsLetters(cleaned[1])
  /\ IsDigits(cleaned[Len(cleaned)])
  /\ \A i \in 1..(Len(cleaned) - 1) : ~IsDigits(cleaned[i])
  /\ \A i \in 1..(LastLetters(cleaned) - 1) : cleaned[i] # "-"

\* standardMatch[1].replace(/\./g, ' ').replace(/\s+/g, ' ').trim(): the runs
\* of letters, one blank between them
TypeRaw(cleaned) == SelectSeq(cleaned, IsLetters)

\* cleaned.match(/^([a-z]+)(\d+)$/)
CompactMatch(cleaned) ==
  Len(cleaned) = 2 /\ IsLetters(cleaned[1]) /\ IsDigits(cleaned[2])

\* cleaned.match(/^([hs])b(\d+)$/)
LegiscanMatch(cleaned) ==
  Len(cleaned) = 2 /\ cleaned[1] \in {"hb", "sb"} /\ IsDigits(cleaned[2])

\* a congress that is neither null nor 0
Truthy(congress) == congress > 0

\* congress ? `${type}${number}-${congress}` : `${type}${number}`
BillId(type, number, congress) ==
  [canonical |-> IF Truthy(congress)
                 THEN <<type, ToString(number), "-", ToString(congress)>>
                 ELSE <<type, ToString(number)>>,
   type      |-> type,
   number    |-> number,
   congress  |-> congress]

\* the three patterns in turn, each returning only for a known type and a
\* number other than 0
NormalizeFrom(cleaned, congress, number) ==
  IF StandardMatch(cleaned) /\ TypeOfKey(TypeRaw(cleaned)) # NullStr /\ number # 0
    THEN BillId(TypeOfKey(TypeRaw(cleaned)), number, congress)
  ELSE IF CompactMatch(cleaned) /\ TypeOfKey(<<cleaned[1]>>) # NullStr /\ number # 0
    THEN BillId(TypeOfKey(<<cleaned[1]>>), number, congress)
  ELSE IF LegiscanMatch(cleaned) /\ number # 0
    THEN BillId(IF cleaned[1] = "hb" THEN "hr" ELSE "s", number, congress)
  ELSE Null

\* parseInt of the run of digits that ends the text, 0 if none does
LastNumber(cleaned) ==
  IF cleaned # <<>> /\ IsDigits(cleaned[Len(cleaned)])
  THEN NumVal[cleaned[Len(cleaned)]] ELSE 0

NormalizeCleaned(cleaned, congress) ==
  NormalizeFrom(cleaned, congress, LastNumber(cleaned))

normalizeBillId(billRef, congress) ==
  IF billRef = EmptyText THEN Null
  ELSE IF CongressMatch(CleanRef(billRef)) /\ ~Truthy(congress)
    THEN NormalizeCleaned(StripCongress(CleanRef(billRef)),
                          NumVal[CleanRef(billRef)[Len(CleanRef(billRef))]])
  ELSE NormalizeCleaned(CleanRef(billRef), congress)

(***************************************************************************)
(* The documented spellings of a bill                                      *)
(***************************************************************************)

\* the letters of each type as they are spelled out
TypeLetters ==
  ("hr" :> <<"H", "R">>) @@ ("s" :> <<"S">>) @@ ("hjres" :> <<"H", "J", "Res">>)
  @@ ("sjres" :> <<"S", "J", "Res">>) @@ ("hconres" :> <<"H", "Con", "Res">>)
  @@ ("sconres" :> <<"S", "Con", "Res">>) @@ ("hres" :> <<"H", "Res">>)
  @@ ("sres" :> <<"S", "Res">>)

RECURSIVE Spelled(_, _)
Spelled(letters, after) ==
  IF letters = <<>> THEN <<>>
  ELSE <<Head(letters)>> \o after \o Spelled(Tail(letters), after)

\* "H R 2766"
Spaced(type, number) == Spelled(TypeLetters[type], <<" ">>) \o <<ToString(number)>>

\* "H.R. 2766"
Dotted(type, number) == Spelled(TypeLetters[type], <<".">>) \o <<" ", ToString(number)>>

\* "hr2766"
Compact(type, number) == <<type, ToString(number)>>

\* "HB2766", "SB58"
Legacy(type, number) == <<IF type = "hr" THEN "HB" ELSE "SB", ToString(number)>>

\* "hr2766-118"
Canonical(type, number, congress) ==
  <<type, ToString(number), "-", ToString(congress)>>

BillNumbers == {5, 58, 234, 2766}

Congresses == {99, 118, 119}

Forms == {"spaced", "dotted", "compact", "legacy", "canonical"}

\* the spelling of a bill in one of the documented forms
Spelling(form, type, number, congress) ==
  IF form = "spaced" THEN Spaced(type, number)
  ELSE IF form = "dotted" THEN Dotted(type, number)
  ELSE IF form = "compact" THEN Compact(type, number)
  ELSE IF form = "legacy" THEN Legacy(type, number)
  ELSE Canonical(type, number, congress)

\* a call of normalizeBillId on a documented spelling of a bill; the congress
\* is passed as the argument, or left out where the spelling carries it
NormalizeBillId(form, type, number, congress, passed) ==
  /\ form = "legacy" => type \in {"hr", "s"}
  /\ ~passed => form = "canonical"
  /\ pc = "library"
  /\ Called("normalizeBillId",
            [form |-> form, type |-> type, number |-> number, congress |-> congress,
             passed |-> passed, billRef |-> Spelling(form, type, number, congress)],
            normalizeBillId(Spelling(form, type, number, congress),
                            IF passed THEN congress ELSE NullNum))

NextBillIds ==
  \E form \in Forms, type \in validTypes, number \in BillNumbers,
     congress \in Congresses, passed \in BOOLEAN :
    NormalizeBillId(form, type, number, congress, passed)

SpecBillIds == InitLibrary /\ [][NextBillIds]_vars

\* C16: every documented spelling of a bill, of whatever type, number and
\* congress, with the congress passed as the argument or carried as the
\* suffix, normalizes to the canonical identifier, the type and the number of
\* the bill, never to null.
C16_SpellingsAgree ==
  call.fn = "normalizeBillId" =>
    /\ call.result # Null
    /\ call.result.canonical = Canonical(call.args.type, call.args.number, call.args.congress)
    /\ call.result.type = call.args.type
    /\ call.result.number = call.args.number

(***************************************************************************)
(* Key system on raw inputs (lib/vote_keys)                                *)
(***************************************************************************)

\* parseInt(x, 10) on the raw numbers used: the digits a text starts with,
\* NaN (NullNum) if it starts with none
ParseIntTable ==
  NumVal @@ ("abc" :> NullNum) @@ ("51abc" :> 51) @@ ("119th" :> 119)

parseInt(raw) == ParseIntTable[raw]

\* the time zones the process may run in: at or west of UTC, or east of it
Zones == {"utc", "east"}

\* the raw dates: "2025-01-15", "January 15, 2025", a text that is no date,
\* and a value that is neither a string nor a Date
KeyDateForms == {"iso", "long", "text", "number"}

\* new Date(date).toISOString().split('T')[0]: a date-only ISO string is read
\* as UTC midnight, any other spelling as local midnight, which east of UTC
\* is still the day before in UTC; 0 stands for the thrown Error
ToCalendarDate(date, zone) ==
  IF date.form = "iso" THEN date.day
  ELSE IF date.form = "long" THEN (IF zone = "east" THEN date.day - 1 ELSE date.day)
  ELSE 0

\* key.split(':') on the first part of a key
ColonParts(chamber) ==
  IF chamber = "house:floor" THEN <<"house", "floor">> ELSE <<chamber>>

\* voteKey.split(':')
VoteKeyParts(voteKey) == ColonParts(voteKey[1]) \o <<voteKey[2], voteKey[3]>>

PartsToVote(parts) ==
  IF Len(parts) # 3 THEN Raised
  ELSE [chamber |-> parts[1], date |-> parts[2], rollNumber |-> parts[3]]

parseVoteKey(voteKey) == PartsToVote(VoteKeyParts(voteKey))

parseBillKey(billKey) ==
  IF Len(billKey) # 3 THEN Raised
  ELSE [congress |-> billKey[1], billType |-> billKey[2], billNumber |-> billKey[3]]

RawChambers == {"house", "House", "SENATE", "committee", "house:floor"}

RawRolls == {"51", "0", "abc", "51abc"}

RawCongresses == {"119", "0", "abc", "119th"}

RawTypes == {"hr", "H.R.", "S.", "sres", "HX"}

RawNumbers == {"5", "2766", "0", "abc"}

KeyDate(form) == [form |-> form, day |-> VoteDay]

MakeVoteKey(chamber, date, rollNumber, zone) ==
  /\ pc = "library"
  /\ Called("makeVoteKey",
         [chamber |-> chamber, date |-> date, rollNumber |-> rollNumber, zone |-> zone],
         makeVoteKey(toLowerCase(chamber), ToCalendarDate(date, zone), parseInt(rollNumber)))

MakeBillKey(congress, billType, billNumber) ==
  /\ pc = "library"
  /\ Called("makeBillKey",
         [congress |-> congress, billType |-> billType, billNumber |-> billNumber],
         makeBillKey(parseInt(congress), billType, parseInt(billNumber)))

\* parseVoteKey on the key makeVoteKey has just returned
ParseVoteKey ==
  /\ pc = "library"
  /\ call.fn = "makeVoteKey"
  /\ call.result # KeyError
  /\ call' = [fn |-> "parseVoteKey", args |-> call.result, made |-> call.args,
              result |-> parseVoteKey(call.result)]
  /\ UNCHANGED <<indexVars, filesLeft, pc, resolutionLog, clock, history, ret, workers>>

\* parseBillKey on the key makeBillKey has just returned
ParseBillKey ==
  /\ pc = "library"
  /\ call.fn = "makeBillKey"
  /\ call.result # KeyError
  /\ call' = [fn |-> "parseBillKey", args |-> call.result, made |-> call.args,
              result |-> parseBillKey(call.result)]
  /\ UNCHANGED <<indexVars, filesLeft, pc, resolutionLog, clock, history, ret, workers>>

NextKeys ==
  \/ \E chamber \in RawChambers, form \in KeyDateForms, rollNumber \in RawRolls,
        zone \in Zones :
       MakeVoteKey(chamber, KeyDate(form), rollNumber, zone)
  \/ \E congress \in RawCongresses, billType \in RawTypes, billNumber \in RawNumbers :
       MakeBillKey(congress, billType, billNumber)
  \/ ParseVoteKey
  \/ ParseBillKey

SpecKeys == InitLibrary /\ [][NextKeys]_vars

\* the valid inputs of makeVoteKey: a chamber of the two, in any case, a date
\* that spells a calendar date, a roll number that is a positive integer
ValidVoteInputs(made) ==
  /\ toLowerCase(made.chamber) \in {"house", "senate"}
  /\ made.date.form \in {"iso", "long"}
  /\ made.rollNumber \in NumToks
  /\ parseInt(made.rollNumber) >= 1

\* the valid inputs of makeBillKey
ValidBillInputs(made) ==
  /\ made.congress \in NumToks /\ parseInt(made.congress) >= 1
  /\ NormalizeType(made.billType) \in validTypes
  /\ made.billNumber \in NumToks /\ parseInt(made.billNumber) >= 1

VoteRoundTrip(made, parsed) ==
  /\ parsed # Raised
  /\ parsed.chamber = toLowerCase(made.chamber)
  /\ parsed.date = made.date.day
  /\ parsed.rollNumber = parseInt(made.rollNumber)

BillRoundTrip(made, parsed) ==
  /\ parsed # Raised
  /\ parsed.congress = parseInt(made.congress)
  /\ parsed.billType = NormalizeType(made.billType)
  /\ parsed.billNumber = parseInt(made.billNumber)

\* C17: for all valid inputs, parsing the key that was made gives back the
\* lower-cased chamber, the calendar date and the roll number that were given
\* (the congress, the normalized type and the number for a bill key), and
\* making a key of the parsed parts gives the same key again.
C17_RoundTrip ==
  /\ call.fn = "makeVoteKey" /\ ValidVoteInputs(call.args) => call.result # KeyError
  /\ call.fn = "makeBillKey" /\ ValidBillInputs(call.args) => call.result # KeyError
  /\ call.fn = "parseVoteKey" /\ ValidVoteInputs(call.made) =>
       /\ VoteRoundTrip(call.made, call.result)
       /\ makeVoteKey(call.result.chamber, call.result.date, call.result.rollNumber)
            = call.args
  /\ call.fn = "parseBillKey" /\ ValidBillInputs(call.made) =>
       /\ BillRoundTrip(call.made, call.result)
       /\ makeBillKey(call.result.congress, call.result.billType, call.result.billNumber)
            = call.args

\* C18: every key makeVoteKey returns has a chamber of the two, a calendar
\* date and a positive roll number; every key makeBillKey returns has a
\* positive congress and number and a type of the eight; and a roll number,
\* congress or number that is no number never yields a key.
C18_KeysWellFormed ==
  /\ call.fn = "makeVoteKey" /\ call.result # KeyError =>
       /\ call.result[1] \in {"house", "senate"}
       /\ call.result[2] >= 1
       /\ call.result[3] >= 1
       /\ call.args.rollNumber \in NumToks
  /\ call.fn = "makeBillKey" /\ call.result # KeyError =>
       /\ call.result[1] >= 1
       /\ call.result[2] \in validTypes
       /\ call.result[3] >= 1
       /\ call.args.congress \in NumToks
       /\ call.args.billNumber \in NumToks

(***************************************************************************)
(* Motion canonicalizer as operations (lib/motion_normalizer)              *)
(***************************************************************************)

M_SuspendAndPass ==
  <<"On", "Motion", "to", "Suspend", "the", "Rules", "and", "Pass", "H.R.", "2766",
    ",", "as", "Amended">>

M_AgreeingAmendment == <<"On", "Agreeing", "to", "the", "Amendment">>

M_QuorumOfHouse == <<"Quorum", "Call", "of", "the", "House">>

M_QuorumHR5 == <<"Quorum", "Call", "H.R.", "5", ",", "as", "Amended">>

M_PassageHR5 == <<"On", "Passage", "H.R.", "5">>

Motions ==
  { Q_Empty, Q_Blank, Q_OnPassage, Q_Quorum, Txt_QuorumCall, M_SuspendAndPass,
    M_AgreeingAmendment, M_QuorumOfHouse, M_QuorumHR5, M_PassageHR5, Q_Amend5,
    Txt_Received }

CanonicalizeMotion(motionText) ==
  /\ pc = "library"
  /\ Called("canonicalizeMotion", motionText, canonicalizeMotion(motionText))

CompareMotions(motion1, motion2) ==
  /\ pc = "library"
  /\ Called("compareMotions", [motion1 |-> motion1, motion2 |-> motion2],
         compareMotions(motion1, motion2))

NextMotions ==
  \/ \E motionText \in Motions : CanonicalizeMotion(motionText)
  \/ \E motion1 \in Motions, motion2 \in Motions : CompareMotions(motion1, motion2)

SpecMotions == InitLibrary /\ [][NextMotions]_vars

\* the two motions have a family each, and it is the same
SameFamily(a, b) ==
  /\ canonicalizeMotion(a).family # <<>>
  /\ canonicalizeMotion(a).family = canonicalizeMotion(b).family

\* simplifyMotionText(motion || '').toLowerCase()
Simple(motion) == LowerText(simplifyMotionText(motion))

\* the score the four rules give, in their order
Ladder(a, b) ==
  IF SameFamily(a, b) THEN 10
  ELSE IF Simple(a) = Simple(b) THEN 9
  ELSE IF Includes(Simple(a), Simple(b)) \/ Includes(Simple(b), Simple(a)) THEN 7
  ELSE 0

NoneBefore(k, text) ==
  \A j \in 1..(k - 1) : ~FamilyMatches(MOTION_FAMILIES[j], text)

NoFamily(text) ==
  \A k \in 1..Len(MOTION_FAMILIES) : ~FamilyMatches(MOTION_FAMILIES[k], text)

\* C20: canonicalizeMotion gives the first family of the table with a pattern
\* that matches, with confidence "high", whatever later families match and
\* whatever bill reference or "as amended" the text holds; without a match
\* the simplified text with "medium"; for an empty or missing text no family
\* and "low".
C20_FirstFamilyWins ==
  call.fn = "canonicalizeMotion" =>
    /\ call.args = EmptyText =>
         call.result = [family |-> <<>>, confidence |-> "low"]
    /\ call.args # EmptyText =>
         /\ \A k \in 1..Len(MOTION_FAMILIES) :
              FamilyMatches(MOTION_FAMILIES[k], Words(call.args))
              /\ NoneBefore(k, Words(call.args))
              => call.result = [family |-> MOTION_FAMILIES[k].canonical,
                                confidence |-> "high"]
         /\ NoFamily(Words(call.args)) =>
              call.result = [family |-> simplifyMotionText(Words(call.args)),
                             confidence |-> "medium"]
    /\ call.args = M_SuspendAndPass =>
         call.result = [family |-> <<"Suspend", "the", "Rules">>, confidence |-> "high"]

\* a text that patterns of two families match was canonicalized
C20_Witness ==
  /\ call.fn = "canonicalizeMotion"
  /\ call.args # EmptyText
  /\ \E j, k \in 1..Len(MOTION_FAMILIES) :
       /\ j < k
       /\ FamilyMatches(MOTION_FAMILIES[j], Words(call.args))
       /\ FamilyMatches(MOTION_FAMILIES[k], Words(call.args))
       /\ call.result.family = MOTION_FAMILIES[j].canonical
  /\ call.result.confidence = "high"

(***************************************************************************)
(* extractAmendment as an operation (lib/motion_normalizer)                *)
(***************************************************************************)

\* the amendment forms the patterns are written for
AmendmentForms == {"Amendment No. N", "Amendment N", "Amdt. N", "Amdt N", "SA N", "HA N"}

\* the words of a form before its number
FormWords(form) ==
  IF form = "Amendment No. N" THEN <<"Amendment", "No.">>
  ELSE IF form = "Amendment N" THEN <<"Amendment">>
  ELSE IF form = "Amdt. N" THEN <<"Amdt.">>
  ELSE IF form = "Amdt N" THEN <<"Amdt">>
  ELSE IF form = "SA N" THEN <<"SA">>
  ELSE <<"HA">>

\* what a motion text has before and after the amendment reference
Leads == {<<>>, <<"On", "Agreeing", "to">>, <<"On", "the">>}

Tails == {<<>>, <<"to", "H.R.", "5">>}

AmendmentNumbers == {"3", "50", "234"}

AmendmentText(lead, form, n, tail) == lead \o FormWords(form) \o <<" ", n>> \o tail

\* motion texts with none of the forms: no amendment word, or one that no
\* number follows
PlainTexts ==
  { Q_Empty, Q_Blank, Q_OnPassage, Q_Quorum, M_AgreeingAmendment, M_PassageHR5,
    <<"On", "the", "Amendment", "to", "H.R.", "5">>, <<"SA", "to", "S.", "58">> }

ExtractAmendment(lead, form, n, tail) ==
  /\ pc = "library"
  /\ Called("extractAmendment",
            [form |-> form, number |-> n, text |-> AmendmentText(lead, form, n, tail)],
            extractAmendment(AmendmentText(lead, form, n, tail)))

ExtractFromPlain(text) ==
  /\ pc = "library"
  /\ Called("extractAmendment", [form |-> "none", number |-> "", text |-> text],
            extractAmendment(text))

NextAmendments ==
  \/ \E lead \in Leads, form \in AmendmentForms, n \in AmendmentNumbers, tail \in Tails :
       ExtractAmendment(lead, form, n, tail)
  \/ \E text \in PlainTexts : ExtractFromPlain(text)

SpecAmendments == InitLibrary /\ [][NextAmendments]_vars

\* C21: for each recognized amendment form ("Amendment No. N", "Amdt. N",
\* "SA N", "HA N") extractAmendment returns a reference, not null, whose
\* number is N; for a text with none of the forms it returns null.
C21_AmendmentNumber ==
  call.fn = "extractAmendment" =>
    IF call.args.form = "none" THEN call.result = Null
    ELSE /\ call.result # Null
         /\ call.result.type = "amendment"
         /\ call.result.number = call.args.number

(***************************************************************************)
(* The action index queried while it is built (BillStatusIndex)            *)
(***************************************************************************)

Txt_OnPassageRoll51 == <<"On", "Passage", "Roll", "no.", "51">>

\* a bill with recorded votes of one roll number the day before VoteDay and
\* two days after it, and with three quorum calls on VoteDay
DocR ==
  [hasBill |-> TRUE, congress |-> Congress, billType |-> "HR", billNumber |-> 234,
   textVersions |-> <<>>,
   actions |-> << RawAction(<<VoteDay - 1>>, Txt_OnPassageRoll51, "", <<>>),
                  RawAction(<<VoteDay + 2>>, Txt_OnPassageRoll51, "", <<>>),
                  RawAction(<<VoteDay>>, M_QuorumOfHouse, "", <<>>),
                  RawAction(<<VoteDay>>, Txt_QuorumCall, "H37100", <<>>),
                  RawAction(<<VoteDay>>, Txt_QuorumCall, "", <<>>) >>]

IndexDocs == Docs \cup {DocR}

QueryChambers == {"house", "senate"}

QueryDates == 1..(VoteDay + 3)

QueryRolls == {50, 51}

\* the windowDays a caller passes; the resolver passes RollWindowDays
WindowDays == {1, 2}

\* index.findByExactRoll(chamber, date, rollNumber, windowDays)
FindByExactRoll(chamber, date, rollNumber, windowDays) ==
  /\ pc = "load"
  /\ indexKind = "billstatus"
  /\ Called("findByExactRoll",
            [chamber |-> chamber, date |-> date, rollNumber |-> rollNumber,
             windowDays |-> windowDays],
            findByExactRoll(chamber, date, rollNumber, windowDays))

NextIndex ==
  \/ \E file \in IndexDocs : IndexBillStatusFile(file)
  \/ \E chamber \in QueryChambers, date \in QueryDates, rollNumber \in QueryRolls,
        windowDays \in WindowDays :
       FindByExactRoll(chamber, date, rollNumber, windowDays)

\* the directory holds the documents IndexDocs and the index is a BillStatusIndex
InitIndex ==
  /\ indexKind = "billstatus"
  /\ filesLeft = IndexDocs
  /\ actionsByDate = EmptyMap
  /\ actionsByBillKey = EmptyMap
  /\ actionsByRoll = EmptyMap
  /\ billTextUrls = EmptyMap
  /\ issuesByCanonical = EmptyMap
  /\ issuesByBillKey = EmptyMap
  /\ issuesById = EmptyMap
  /\ pc = "load"
  /\ resolutionLog = <<>>
  /\ clock = 0
  /\ history = <<>>
  /\ ret = [op |-> "none"]
  /\ workers = NoWorkers
  /\ call = NoCall

SpecIndex == InitIndex /\ [][NextIndex]_vars

Abs(n) == IF n < 0 THEN 0 - n ELSE n

\* the day offsets within the window at which the roll map has an entry of
\* the chamber and the roll number
RollOffsets(q) ==
  { o \in (0 - q.windowDays)..q.windowDays :
      <<q.chamber, q.date + o, q.rollNumber>> \in DOMAIN actionsByRoll }

\* the entry is of the chamber and the roll number, and no entry of them is
\* nearer to the date
NearestRoll(q, hits, entry) ==
  /\ entry # Null
  /\ entry.chamber = q.chamber
  /\ entry.roll_number = q.rollNumber
  /\ Abs(entry.action_date - q.date) <= q.windowDays
  /\ \A o \in hits : Abs(entry.action_date - q.date) <= Abs(o)

FindsNearest(q, hits, entry) ==
  IF hits = {} THEN entry = Null ELSE NearestRoll(q, hits, entry)

\* C22: findByExactRoll(chamber, date, roll, windowDays) returns null when the
\* roll map has no entry of the chamber and the roll number within windowDays
\* days of the date; otherwise an entry of that chamber and roll number
\* within the window, the one on the date itself if there is one and else
\* one at the smallest day offset, for every windowDays >= 1.
C22_NearestRollWins ==
  [][call' # call /\ call'.fn = "findByExactRoll"
     => FindsNearest(call'.args, RollOffsets(call'.args), call'.result)]_vars

(***************************************************************************)
(* The strategies of the resolver as operations (VoteResolver)             *)
(***************************************************************************)

Q_SenateVote50 == Txt_SenateVote50

Q_AmendSA == <<"On", "SA", "3", "to", "H.R.", "5">>

Q_AmendNoBill == <<"On", "Agreeing", "to", "Amendment", "No.", "3">>

KeyR == makeBillKey(Congress, "hr", 234)

\* the votes the strategies are called on
StrategyVotes ==
  Votes \cup
  { Vote("senate", VoteDay, 51, NullKey, Q_Quorum),
    Vote("house", VoteDay, 51, NullKey, Txt_QuorumCall),
    Vote("house", VoteDay, 51, NullKey, Txt_Received),
    Vote("house", VoteDay + 1, 51, NullKey, Q_SenateVote50),
    Vote("senate", VoteDay + 1, 51, NullKey, Q_SenateVote50),
    Vote("house", VoteDay, 51, KeyA, Q_Amend5),
    Vote("house", VoteDay, 51, KeyB, Q_Amend5),
    Vote("house", VoteDay, 51, KeyR, Q_Amend5),
    Vote("house", VoteDay, 51, NullKey, Q_AmendSA),
    Vote("house", VoteDay, 51, KeyA, Q_AmendNoBill),
    Vote("house", VoteDay, 51, NullKey, Q_AmendNoBill),
    Vote("house", VoteDay + 1, 51, NullKey, Q_Amend5) }

\* resolver.resolveByMotion(vote)
ResolveByMotion(vote) ==
  /\ pc = "resolve"
  /\ Called("resolveByMotion", vote, resolveByMotion(vote))

\* resolver.resolveByAmendment(vote)
ResolveByAmendment(vote) ==
  /\ pc = "resolve"
  /\ Called("resolveByAmendment", vote, resolveByAmendment(vote))

NextStrategies ==
  \/ \E file \in IndexDocs : IndexBillStatusFile(file)
  \/ NewResolver
  \/ \E vote \in StrategyVotes : ResolveByMotion(vote)
  \/ \E vote \in StrategyVotes : ResolveByAmendment(vote)

SpecStrategies == InitIndex /\ [][NextStrategies]_vars

\* the score of the vote's motion text against the action's text, in tenths
ScoreOf(vote, action) == compareMotions(vote.question, action.action_text).score

\* the places, among the actions of the vote's date, of those whose chamber
\* is unknown or the vote's and whose score is at least the minimum
Candidates(vote, actions) ==
  { i \in 1..Len(actions) :
      /\ SameOrUnknownChamber(vote, actions[i])
      /\ ScoreOf(vote, actions[i]) >= MinMotionScore }

\* the first of the candidates with the highest score
Winner(vote, actions, cands) ==
  CHOOSE i \in cands :
    \A j \in cands :
      \/ ScoreOf(vote, actions[j]) < ScoreOf(vote, actions[i])
      \/ ScoreOf(vote, actions[j]) = ScoreOf(vote, actions[i]) /\ i <= j

BestOf(vote, actions, cands, result) ==
  IF cands = {} THEN result = Null
  ELSE /\ result # Null
       /\ result = [confidence   |-> ScoreOf(vote, actions[Winner(vote, actions, cands)]),
                    motion_score |-> ScoreOf(vote, actions[Winner(vote, actions, cands)])]
                   @@ actions[Winner(vote, actions, cands)]
       /\ SameOrUnknownChamber(call.args, result)
       /\ result.confidence >= MinMotionScore

\* C23: the motion strategy returns, among the actions indexed on the vote's
\* date whose chamber is unknown or the vote's, the one with the highest
\* compareMotions score against the vote's motion text if that score is at
\* least 0.7, the one indexed first among those of equal score, with the
\* score as its confidence; an action of another chamber is never chosen, and
\* without such an action the strategy returns null.
C23_BestMotionWins ==
  call.fn = "resolveByMotion" =>
    BestOf(call.args, index_findByDate(call.args.vote_date),
           Candidates(call.args, index_findByDate(call.args.vote_date)), call.result)

\* the motion strategy chose the second of three actions of the vote's
\* chamber on the vote's date: the first scores less, the third the same
C23_Witness ==
  /\ call.fn = "resolveByMotion"
  /\ call.result # Null
  /\ \E i, j, k \in 1..Len(index_findByDate(call.args.vote_date)) :
       LET actions == index_findByDate(call.args.vote_date)
       IN  /\ i < j /\ j < k
           /\ {i, j, k} \subseteq Candidates(call.args, actions)
           /\ ScoreOf(call.args, actions[i]) < ScoreOf(call.args, actions[j])
           /\ ScoreOf(call.args, actions[k]) = ScoreOf(call.args, actions[j])
           /\ actions[k] # actions[j]
           /\ call.result.action_code = actions[j].action_code
           /\ call.result.confidence = ScoreOf(call.args, actions[j])

\* the motion strategy returned null although an action of another chamber
\* on the vote's date has the vote's motion text
C23_WitnessOtherChamber ==
  /\ call.fn = "resolveByMotion"
  /\ call.result = Null
  /\ \E i \in 1..Len(index_findByDate(call.args.vote_date)) :
       /\ ~SameOrUnknownChamber(call.args, index_findByDate(call.args.vote_date)[i])
       /\ ScoreOf(call.args, index_findByDate(call.args.vote_date)[i]) = 10

\* the digits (\d+) of the amendment form matched in the motion text
MatchedNumber(w) == w[FirstMatch(LowerText(w), AmendmentPatterns).num]

\* what resolve reports in step 4 when the earlier strategies found nothing
AmendmentReport(vote, amendment) ==
  ResolveFrom(vote, InitialResult(vote), Null, Null, Null, Null, amendment)

\* the actions of the vote's own bill key on the vote's date
OwnActions(vote) ==
  IF vote.bill_key # NullKey
  THEN index_findByBillAndDate(vote.bill_key, vote.vote_date)
  ELSE <<>>

\* the actions, on the vote's date, of the bill the motion text refers to
ReferredActions(vote, billRef) ==
  IF billRef = Null THEN <<>>
  ELSE index_findByBillAndDate(
         makeBillKey(vote.congress, billRef.billType, billRef.billNumber),
         vote.vote_date)

\* the action the amendment strategy is to find: the first of the vote's own
\* bill, else the first of the bill referred to, else none
ParentAction(own, referred) ==
  IF Len(own) > 0 THEN own[1]
  ELSE IF Len(referred) > 0 THEN referred[1]
  ELSE Null

\* the strategy found the parent action, and resolve reports it with the
\* number under which the amendment goes
AmendmentLinked(vote, parent, number, result) ==
  IF parent = Null THEN result = Null
  ELSE /\ result = [amendment_number |-> result.amendment_number] @@ parent
       /\ AmendmentReport(vote, result).match_step = "amendment"
       /\ AmendmentReport(vote, result).confidence = 7
       /\ AmendmentReport(vote, result).bill_key = parent.bill_key
       /\ AmendmentReport(vote, result).metadata.amendment_number = number

\* C24: the amendment strategy gives null when the motion text yields no
\* amendment reference; otherwise it finds the first action of the vote's own
\* bill key on the vote's date, and only if there is none the first action,
\* on that date, of the bill reference re-extracted from the motion text; a
\* success is reported as strategy "amendment" with confidence 0.7, the bill
\* key of the action found, and the amendment's number in the metadata.
C24_AmendmentLinkage ==
  call.fn = "resolveByAmendment" /\ call.result # Raised =>
    IF extractAmendment(call.args.question) = Null THEN call.result = Null
    ELSE AmendmentLinked(call.args,
                         ParentAction(OwnActions(call.args),
                                      ReferredActions(call.args,
                                        extractBillReference(call.args.question))),
                         MatchedNumber(Words(call.args.question)),
                         call.result)

\* the elements of a list
Range(list) == { list[i] : i \in 1..Len(list) }

\* the actions listed under some date, and those listed under some bill key
ListedByDate == UNION { Range(actionsByDate[d]) : d \in DOMAIN actionsByDate }

ListedByBillKey == UNION { Range(actionsByBillKey[b]) : b \in DOMAIN actionsByBillKey }

\* the entry stored under a chamber:date:roll triple k
RollEntryAgrees(k, action) ==
  /\ action.chamber = k[1]
  /\ action.action_date = k[2]
  /\ action.roll_number = k[3]
  /\ extractRollNumber(action.action_text) = k[3]
  /\ k[3] > 0
  /\ action \in Range(findByDate(k[2]))
  /\ action \in Range(MapGet(actionsByBillKey, action.bill_key, <<>>))

\* the bill keys and the dates a query can name: those of the documents
QueryBillKeys == {KeyA, KeyB, KeyR, makeBillKey(Congress, "s", 58)}

\* findByDate(date).filter(action => action.bill_key === billKey)
OfBill(billKey, actions) ==
  LET keep(a) == a.bill_key = billKey IN SelectSeq(actions, keep)

\* C25: after any sequence of indexBillStatusFile calls the three maps agree:
\* an action stored under a chamber:date:roll triple has that chamber, date
\* and roll number, the roll number is the one extracted from its text, and
\* it is listed under its date and under its bill key; the actions listed
\* under dates are those listed under bill keys, each under its own date and
\* bill key; and findByBillAndDate(b, d) is the actions of findByDate(d)
\* whose bill key is b, in the same order.
C25_MapsAgree ==
  /\ \A k \in DOMAIN actionsByRoll : RollEntryAgrees(k, actionsByRoll[k])
  /\ ListedByDate = ListedByBillKey
  /\ \A d \in DOMAIN actionsByDate : \A a \in Range(actionsByDate[d]) : a.action_date = d
  /\ \A b \in DOMAIN actionsByBillKey : \A a \in Range(actionsByBillKey[b]) : a.bill_key = b
  /\ \A b \in QueryBillKeys \cup DOMAIN actionsByBillKey, d \in QueryDates :
       findByBillAndDate(b, d) = OfBill(b, findByDate(d))

\* two documents were indexed, one of them with a failure in the middle: a
\* date lists actions of two bills, a bill has several actions on one date,
\* and the roll map has entries
C25_Witness ==
  /\ actionsByRoll # EmptyMap
  /\ ret = [op |-> "indexBillStatusFile", threw |-> TRUE]
  /\ \E d \in DOMAIN actionsByDate :
       /\ \E a, b \in Range(actionsByDate[d]) : a.bill_key # b.bill_key
       /\ \E a \in Range(actionsByDate[d]) :
            Len(findByBillAndDate(a.bill_key, d)) >= 2
            /\ Len(findByBillAndDate(a.bill_key, d)) < Len(findByDate(d))

\* what the explicit field of the document yields: the legis-num or
\* bill-number field of a House document, the document type and number of a
\* Senate one; null if the document carries none or it names no bill
ExplicitRef(fn, doc) ==
  IF fn = "parseSenateXML"
  THEN IF doc.document = NoDocument THEN Null
       ELSE parseSenateDocumentType(doc.document.document_type,
                                    doc.document.document_number)
  ELSE IF OrText(doc.bill_number, doc.legis_num) = EmptyText THEN Null
       ELSE extractBillReference(OrText(doc.bill_number, doc.legis_num))

\* the reference of the explicit field if it yields one, else that of the
\* motion text
ExplicitThenMotion(explicit, doc) ==
  IF explicit # Null THEN explicit ELSE extractBillReference(doc.question)

\* the bill key the reader makes of a reference
RefKey(doc, billRef) == KeyOfRef(doc.congress, billRef)

\* C26: in every reader the bill reference is the one the explicit field
\* yields, and otherwise the one found in the motion text: a document whose
\* explicit field is present but names no bill still gets the reference of
\* its motion text.  (Stated on the bill key the reader makes of the
\* reference, for the documents whose reference makes a bill key.)
C26_ExplicitThenMotion ==
  /\ Parsed
  /\ RefKey(call.args, ExplicitThenMotion(ExplicitRef(call.fn, call.args), call.args))
       # KeyError
  => call.result.bill_key =
       RefKey(call.args, ExplicitThenMotion(ExplicitRef(call.fn, call.args), call.args))

(***************************************************************************)
(* More properties of the resolver                                         *)
(***************************************************************************)

\* C27: a vote that carries a bill key is never linked to another bill: if
\* resolve returns a resolved result for it, the result's bill key is the
\* vote's own, whatever the index holds.
C27_OwnBillOnly ==
  \A i \in Calls :
    /\ Returned(i)
    /\ history[i].vote.bill_key # NullKey
    /\ history[i].outcome.match_step # "none"
    => history[i].outcome.bill_key = history[i].vote.bill_key

\* C28: a motion match needs text on both sides: a vote whose motion text is
\* empty, blank or missing is never resolved by the motion strategy, and an
\* action without text is never the motion strategy's match.
C28_MotionNeedsText ==
  \A i \in Calls :
    /\ Returned(i)
    /\ history[i].outcome.match_step = "motion"
    => /\ Words(history[i].vote.question) # <<>>
       /\ Words(history[i].outcome.metadata.action_text) # <<>>

\* the bill key resolveByAmendment builds from the bill reference it
\* re-extracts from the motion text; null if the text names no bill
ReExtractedKey(vote) ==
  KeyOfRef(vote.congress, extractBillReference(vote.question))

\* C29: whenever resolve reports strategy "amendment", the bill key is the
\* one built from the bill reference re-extracted from the motion text, and
\* the vote had no bill key or no indexed action of its own bill key on its
\* date: after the bill + same-date strategy the amendment strategy's lookup
\* by the vote's own bill key cannot succeed.
C29_AmendmentByReference ==
  \A i \in Calls :
    /\ Returned(i)
    /\ history[i].outcome.match_step = "amendment"
    => /\ extractBillReference(history[i].vote.question) # Null
       /\ history[i].outcome.bill_key = ReExtractedKey(history[i].vote)
       /\ OwnActions(history[i].vote) = <<>>

\* a vote that names a bill without an action on the vote's date was
\* resolved by the amendment strategy to the bill its motion text names
C29_Witness ==
  \E i \in Calls :
    /\ Returned(i)
    /\ history[i].vote.bill_key = KeyA
    /\ history[i].outcome.match_step = "amendment"
    /\ history[i].outcome.bill_key = KeyB
    /\ history[i].outcome.metadata.amendment_number = "3"
    /\ findByBillAndDate(KeyB, history[i].vote.vote_date) # <<>>

(***************************************************************************)
(* The issue index over bills of several congresses (IssuesIndex)          *)
(***************************************************************************)

IssueTypes == {"hr", "s"}

IssueNumbers == {5, 2766}

IssueCongresses == {118, 119}

IssueForms == {"canonical", "compact"}

\* the issue whose canonical bill identifier spells the bill in the form
BillIssue(form, type, number, congress) ==
  Issue(1, "Bill", Spelling(form, type, number, congress), <<>>, "cg", "")

\* the vote that carries the bill key the key system builds for the bill
BillVote(type, number, congress) ==
  Vote("house", VoteDay, 51, makeBillKey(congress, type, number), Q_OnPassage)

NextIssues ==
  \/ \E form \in IssueForms, type \in IssueTypes, number \in IssueNumbers,
        congress \in IssueCongresses :
       IndexFromDatabase(<<BillIssue(form, type, number, congress)>>, <<>>)
  \/ NewResolver
  \/ \E type \in IssueTypes, number \in IssueNumbers, congress \in IssueCongresses :
       Resolve(BillVote(type, number, congress))

SpecIssues == Init /\ [][NextIssues]_vars

\* the issue's canonical bill identifier spells the bill of the key, in the
\* canonical form or in the compact form without congress
Denotes(issue, billKey) ==
  \/ issue.canonical_bill_id = Canonical(billKey[2], billKey[3], billKey[1])
  \/ issue.canonical_bill_id = Compact(billKey[2], billKey[3])

\* the vote of a call resolved by the direct strategy to the issue
ResolvedTo(i, issue) ==
  /\ Returned(i)
  /\ history[i].outcome.match_step = "direct_bill_key"
  /\ history[i].outcome.bill_key = history[i].vote.bill_key
  /\ history[i].outcome.metadata.issue_id = issue.id

\* C30: an issue whose canonical bill identifier denotes a bill, in the
\* canonical form {type}{number}-{congress} or in the compact form, is what
\* findByBillKey returns for the bill key congress:type:number the key system
\* builds for that bill, for every congress, and a vote carrying that bill
\* key resolves by the direct strategy to that issue.
C30_IssueFoundByBillKey ==
  indexKind = "issues" =>
    \A i \in Calls :
      \A id \in DOMAIN issuesById :
        Denotes(issuesById[id], history[i].vote.bill_key) =>
          /\ findByBillKey(history[i].vote.bill_key) = issuesById[id]
          /\ ResolvedTo(i, issuesById[id])

====
